---- MODULE Spec2Model ----
(***************************************************************************)
(* A model of the cross-file context core of CodeInterpreter: the          *)
(* dependency graph (src/lib/context/dependency-graph-builder.ts), the     *)
(* symbol resolver (src/lib/context/symbol-resolver.ts), the semantic      *)
(* index (src/lib/semantic/semantic-index.ts), the in-memory vector store  *)
(* (src/lib/semantic/embedding-generator.ts) and the ranking algorithm     *)
(* (src/lib/semantic/semantic-retrieval.ts).                               *)
(*                                                                         *)
(* Conventions.  Scores and similarities are kept in hundredths (0.7 is    *)
(* 70).  A JavaScript Map is a sequence of entries in insertion order.     *)
(* A string that the code searches by substring (a symbol name) is a       *)
(* sequence of one-letter strings; the empty sequence stands for a symbol  *)
(* that is undefined or '' (both falsy in the code).  A file path is a     *)
(* record [dir, base, ext].  An optional value is [given, value].          *)
(***************************************************************************)
EXTENDS Integers, Sequences, FiniteSets, TLC

VARIABLES
    vectorStore,   \* InMemoryVectorStore.vectors of the index being queried
    retrieval,     \* the last call of retrieveRelevantCode: inputs and results
    combination,   \* the last call of combineWithSymbolResolution
    graph,         \* the DependencyGraph handed to the resolver
    resolution,    \* the last call of resolveSymbol: inputs and result
    disk,          \* the project's source files as they are on disk
    index,         \* the SemanticIndex last returned by loadOrBuildSemanticIndex
    semanticCache, \* the semantic index cache file of the project
    graphCache,    \* the graph cache file of the project
    call           \* the last call of an operation of the caches: inputs and outcome

vars == <<vectorStore, retrieval, combination, graph, resolution, disk, index,
          semanticCache, graphCache, call>>

----------------------------------------------------------------------------
(* Bounds of the model *)

MaxVectors == 2      \* entries of the vector store in SpecRetrieve
MaxFanOut == 6       \* entries of the vector store in SpecFanOut
MaxSymbolResults == 2    \* symbol-resolution results handed to the combination
MaxSemanticResults == 2  \* semantic results handed to the combination
MaxImports == 2          \* import bindings of the current file
MaxFiles == 3            \* source files of the project in SpecResolve
MaxDefinitions == 2      \* definitions of utils.ts in SpecProject
MaxBatchUnits == 3       \* units handed to batchGenerateEmbeddings in SpecBatch
MaxIncrementalUnits == 2 \* units handed to incrementalGenerateEmbeddings
MaxIncrementalCalls == 2 \* calls of incrementalGenerateEmbeddings in a row
MaxStoreEntries == 2     \* entries of the vector store in SpecStore
MaxCodeLines == 3        \* lines of a definition in SpecEnrich
MaxLineSymbols == 2      \* symbols of the target line in SpecLineContext
MaxConcurrentEdits == 2  \* modifications of files while two calls run in SpecTwoCalls

----------------------------------------------------------------------------
(* Program constants *)

HIGH_CONFIDENCE == 70
MEDIUM_CONFIDENCE == 60
DEFAULT_MAX_RESULTS == 3
MAX_RESULTS_WITH_JUSTIFICATION == 5
SEARCH_TOP_K == 20
FAN_OUT_WINDOW == 5
BOOST_SYMBOL_MATCH == 20
BOOST_PARTIAL_MATCH == 10
BOOST_EXPORTED == 5
PENALTY_SAME_FILE == 10
SCORE_CAP == 100

----------------------------------------------------------------------------
(* Optional values, strings, Maps *)

None(v) == [given |-> FALSE, value |-> v]
Some(v) == [given |-> TRUE, value |-> v]

Min(a, b) == IF a <= b THEN a ELSE b

ToLowerChar(c) ==
    CASE c = "F" -> "f"
      [] c = "M" -> "m"
      [] c = "T" -> "t"
      [] c = "G" -> "g"
      [] c = "E" -> "e"
      [] OTHER -> c

toLowerCase(s) == [i \in 1..Len(s) |-> ToLowerChar(s[i])]

\* String.prototype.includes: t occurs in s as a contiguous substring.
StrIncludes(s, t) ==
    \E k \in 0..(Len(s) - Len(t)) : \A i \in 1..Len(t) : s[k + i] = t[i]

\* Array.prototype.includes
ArrIncludes(arr, x) == \E i \in 1..Len(arr) : arr[i] = x

\* Array.prototype.slice(0, n) for n >= 0
SliceTo(arr, n) == SubSeq(arr, 1, Min(n, Len(arr)))

RECURSIVE InsertByKey(_, _, _)
InsertByKey(order, i, keys) ==
    IF order = <<>> THEN <<i>>
    ELSE IF keys[Head(order)] >= keys[i]
         THEN <<Head(order)>> \o InsertByKey(Tail(order), i, keys)
         ELSE <<i>> \o order

RECURSIVE StableOrder(_, _)
StableOrder(keys, n) ==
    IF n = 0 THEN <<>> ELSE InsertByKey(StableOrder(keys, n - 1), n, keys)

\* arr.sort((a, b) => key(b) - key(a)): descending, stable.
SortDescending(arr, keys) ==
    LET order == StableOrder(keys, Len(arr))
    IN  [k \in 1..Len(arr) |-> arr[order[k]]]

\* Map.prototype.set: an existing key keeps its place, a new key goes last.
MapSet(m, entry) ==
    IF \E i \in 1..Len(m) : m[i].id = entry.id
    THEN [i \in 1..Len(m) |-> IF m[i].id = entry.id THEN entry ELSE m[i]]
    ELSE Append(m, entry)

MapHas(m, id) == \E i \in 1..Len(m) : m[i].id = id

----------------------------------------------------------------------------
(* Files and code units *)

File(dir, base, ext) == [dir |-> dir, base |-> base, ext |-> ext]

MainTs == File(0, "main", ".ts")
MainPy == File(0, "main", ".py")
UtilsTs == File(0, "utils", ".ts")
ModTs == File(1, "mod", ".ts")

\* The empty path ''
NoFile == File(0, "", "")

\* TypeScriptParser.getLanguageFromExtension and PythonParser.language
LanguageOf(file) ==
    IF file.ext \in {".ts", ".tsx"} THEN "typescript"
    ELSE IF file.ext = ".py" THEN "python"
    ELSE "javascript"

SymFmt == <<"f", "m", "t">>
SymFmtCap == <<"F", "m", "t">>
SymGet == <<"g", "e", "t">>
SymPut == <<"p", "u", "t">>
NoSymbol == <<>>

\* A CodeUnit as extractUnitsFromFile makes it: id is `${file.path}::${def.name}`,
\* code and metadata.hash are '' until the unit is enriched.  line stands for
\* lines.start and lines.end: the place of the definition in its file.
CodeUnit(file, symbol, isExported) ==
    [id |-> <<file, symbol>>, file |-> file, symbol |-> symbol,
     language |-> LanguageOf(file), type |-> "function", isExported |-> isExported,
     line |-> 1, code |-> "", hash |-> ""]

----------------------------------------------------------------------------
(* Embeddings and cosine similarity *)

\* Integer vectors of length 25, so that every cosine below is a whole number
\* of hundredths: against VecQuery they give 0.28, 0.60, 0.68 and 0.96.
VecQuery == <<25, 0, 0, 0>>
Vec28 == <<7, 24, 0, 0>>
Vec60 == <<15, 20, 0, 0>>
Vec68 == <<17, 16, 8, 4>>
Vec96 == <<24, 7, 0, 0>>

RECURSIVE DotFrom(_, _, _)
DotFrom(a, b, i) ==
    IF i > Len(a) THEN 0 ELSE a[i] * b[i] + DotFrom(a, b, i + 1)

RECURSIVE SqrtFrom(_, _)
SqrtFrom(n, r) == IF (r + 1) * (r + 1) > n THEN r ELSE SqrtFrom(n, r + 1)

\* cosineSimilarity, in hundredths: dot / (|a| |b|), 0 for a zero vector.
cosineSimilarity(a, b) ==
    LET dotProduct == DotFrom(a, b, 1)
        magnitudeA == SqrtFrom(DotFrom(a, a, 1), 0)
        magnitudeB == SqrtFrom(DotFrom(b, b, 1), 0)
    IN  IF magnitudeA = 0 \/ magnitudeB = 0 THEN 0
        ELSE (100 * dotProduct) \div (magnitudeA * magnitudeB)

----------------------------------------------------------------------------
(* InMemoryVectorStore *)

VectorEntry(unit, embedding) ==
    [id |-> unit.id, embedding |-> embedding, metadata |-> [unit |-> unit]]

\* InMemoryVectorStore.insert
StoreInsert(store, unit, embedding) == MapSet(store, VectorEntry(unit, embedding))

\* InMemoryVectorStore.delete
StoreDelete(store, id) == SelectSeq(store, LAMBDA e : e.id # id)

NoFilters == [file |-> None(MainTs), language |-> "", types |-> <<>>,
              excludeFiles |-> <<>>]

\* InMemoryVectorStore.matchesFilters
matchesFilters(metadata, filters) ==
    /\ ~(filters.file.given /\ metadata.unit.file # filters.file.value)
    /\ ~(filters.language # "" /\ metadata.unit.language # filters.language)
    /\ ~(Len(filters.types) > 0 /\ ~ArrIncludes(filters.types, metadata.unit.type))
    /\ ~(Len(filters.excludeFiles) > 0
         /\ ArrIncludes(filters.excludeFiles, metadata.unit.file))

\* The search as it would be if it took the first topK survivors and
\* sorted them afterwards
StoreSearchSlicingFirst(store, queryVec, topK, filters, minSimilarity) ==
    LET scored == [i \in 1..Len(store) |->
                     [id |-> store[i].id,
                      similarity |-> cosineSimilarity(queryVec, store[i].embedding),
                      metadata |-> store[i].metadata]]
        kept == SliceTo(SelectSeq(scored, LAMBDA r :
                    /\ matchesFilters(r.metadata, filters)
                    /\ ~(r.similarity < minSimilarity)), topK)
        keys == [i \in 1..Len(kept) |-> kept[i].similarity]
    IN  SortDescending(kept, keys)

\* InMemoryVectorStore.search
StoreSearch(store, queryVec, topK, filters, minSimilarity) ==
    LET scored == [i \in 1..Len(store) |->
                     [id |-> store[i].id,
                      similarity |-> cosineSimilarity(queryVec, store[i].embedding),
                      metadata |-> store[i].metadata]]
        kept == SelectSeq(scored, LAMBDA r :
                    /\ matchesFilters(r.metadata, filters)
                    /\ ~(r.similarity < minSimilarity))
        keys == [i \in 1..Len(kept) |-> kept[i].similarity]
    IN  SliceTo(SortDescending(kept, keys), topK)

----------------------------------------------------------------------------
(* Semantic retrieval: src/lib/semantic/semantic-retrieval.ts *)

Query(symbols, language, currentFile) ==
    [symbols |-> symbols, language |-> language, currentFile |-> currentFile]

Options(maxResults, includeConditional, excludeCurrentFile) ==
    [maxResults |-> maxResults, includeConditional |-> includeConditional,
     excludeCurrentFile |-> excludeCurrentFile]

NoOptions == Options(None(0), None(TRUE), None(FALSE))

\* unit.symbol && query.symbols.includes(unit.symbol)
SymbolNameMatch(unit, query) ==
    unit.symbol # NoSymbol /\ ArrIncludes(query.symbols, unit.symbol)

\* Signal 2: some query symbol and the unit's symbol contain one another,
\* compared in lower case.
PartialSymbolMatch(unit, query) ==
    /\ unit.symbol # NoSymbol
    /\ \E i \in 1..Len(query.symbols) :
          \/ StrIncludes(toLowerCase(unit.symbol), toLowerCase(query.symbols[i]))
          \/ StrIncludes(toLowerCase(query.symbols[i]), toLowerCase(unit.symbol))

\* The re-ranked score as it would be without Math.min(score, 1.0)
FinalScoreUncapped(result, query) ==
    LET unit == result.metadata.unit
    IN  result.similarity
          + (IF SymbolNameMatch(unit, query) THEN BOOST_SYMBOL_MATCH ELSE 0)
          + (IF PartialSymbolMatch(unit, query) THEN BOOST_PARTIAL_MATCH ELSE 0)
          + (IF unit.isExported THEN BOOST_EXPORTED ELSE 0)
          - (IF unit.file = query.currentFile THEN PENALTY_SAME_FILE ELSE 0)

\* The re-ranked score of one vector result, capped at 1.0.
FinalScore(result, query) ==
    LET unit == result.metadata.unit
        s1 == result.similarity
                + (IF SymbolNameMatch(unit, query) THEN BOOST_SYMBOL_MATCH ELSE 0)
        s2 == s1 + (IF PartialSymbolMatch(unit, query) THEN BOOST_PARTIAL_MATCH ELSE 0)
        s3 == s2 + (IF unit.isExported THEN BOOST_EXPORTED ELSE 0)
        s4 == s3 - (IF unit.file = query.currentFile THEN PENALTY_SAME_FILE ELSE 0)
    IN  Min(s4, SCORE_CAP)

\* shouldIncludeConditional
shouldIncludeConditional(unit, query) ==
    IF SymbolNameMatch(unit, query) THEN TRUE
    ELSE IF unit.isExported THEN TRUE
    ELSE FALSE

\* A banding whose thresholds are exclusive: a score of exactly 0.7 or 0.6
\* falls into the band below.  Not the program's banding.
ConfidenceBandExclusive(score) ==
    IF score > HIGH_CONFIDENCE THEN "high"
    ELSE IF score > MEDIUM_CONFIDENCE THEN "medium"
    ELSE "low"

\* The confidence band of a final score.
ConfidenceBand(score) ==
    IF score >= HIGH_CONFIDENCE THEN "high"
    ELSE IF score >= MEDIUM_CONFIDENCE THEN "medium"
    ELSE "low"

\* The body of ranked = vectorResults.map(...)
RankResult(result, query) ==
    LET unit == result.metadata.unit
        score == FinalScore(result, query)
        confidence == ConfidenceBand(score)
        reasons ==
            <<"Semantic similarity">>
            \o (IF SymbolNameMatch(unit, query) THEN <<"Symbol name match">> ELSE <<>>)
            \o (IF PartialSymbolMatch(unit, query) THEN <<"Partial symbol match">> ELSE <<>>)
            \o (IF unit.isExported THEN <<"Exported symbol (definition)">> ELSE <<>>)
            \o (IF unit.file = query.currentFile THEN <<"Same file penalty">> ELSE <<>>)
            \o (IF confidence = "medium" /\ SymbolNameMatch(unit, query)
                THEN <<"Conditional: symbol match">>
                ELSE IF confidence = "medium" /\ unit.isExported
                     THEN <<"Conditional: is definition">>
                     ELSE <<>>)
    IN  [unit |-> unit,
         score |-> score,
         confidence |-> confidence,
         matchReasons |-> reasons,
         autoInclude |-> IF confidence = "high" THEN TRUE
                         ELSE IF confidence = "medium"
                              THEN shouldIncludeConditional(unit, query)
                              ELSE FALSE]

\* applyFilteringRules
applyFilteringRules(ranked, query, options) ==
    LET includeConditional ==
            ~(options.includeConditional.given
              /\ options.includeConditional.value = FALSE)
    IN  SelectSeq(ranked, LAMBDA result :
            IF result.confidence = "high" THEN TRUE
            ELSE IF result.confidence = "medium"
                 THEN result.autoInclude \/ includeConditional
                 ELSE FALSE)

\* The distinct truthy symbols of the first five results.
UniqueSymbols(results) ==
    {results[i].unit.symbol : i \in 1..Min(FAN_OUT_WINDOW, Len(results))} \ {NoSymbol}

\* A limit that is always the wider one when none is requested.  Not the
\* program's limit.
determineMaxResultsAlwaysWide(results, options) ==
    IF options.maxResults.given /\ options.maxResults.value # 0
    THEN options.maxResults.value
    ELSE MAX_RESULTS_WITH_JUSTIFICATION

\* determineMaxResults: `if (options?.maxResults)` is a truthiness test.
determineMaxResults(results, options) ==
    IF options.maxResults.given /\ options.maxResults.value # 0
    THEN options.maxResults.value
    ELSE IF Cardinality(UniqueSymbols(results)) > 1
         THEN MAX_RESULTS_WITH_JUSTIFICATION
         ELSE DEFAULT_MAX_RESULTS

\* retrieveRelevantCode, given the embedding the service returned for the
\* query text.  The record keeps every stage of the call.
retrieveRelevantCode(query, queryEmbedding, store, options) ==
    LET vectorResults ==
            StoreSearch(store, queryEmbedding, SEARCH_TOP_K,
                [NoFilters EXCEPT
                    !.language = query.language,
                    !.excludeFiles =
                        IF options.excludeCurrentFile.given
                           /\ options.excludeCurrentFile.value
                        THEN <<query.currentFile>> ELSE <<>>],
                MEDIUM_CONFIDENCE)
        mapped == [i \in 1..Len(vectorResults) |-> RankResult(vectorResults[i], query)]
        ranked == SortDescending(mapped, [i \in 1..Len(mapped) |-> mapped[i].score])
        filtered == applyFilteringRules(ranked, query, options)
        maxResults == determineMaxResults(filtered, options)
    IN  [called |-> TRUE,
         query |-> query,
         options |-> options,
         vectorResults |-> vectorResults,
         ranked |-> ranked,
         filtered |-> filtered,
         final |-> SliceTo(filtered, maxResults)]

NoRetrieval ==
    [called |-> FALSE, query |-> Query(<<>>, "", MainTs), options |-> NoOptions,
     vectorResults |-> <<>>, ranked |-> <<>>, filtered |-> <<>>, final |-> <<>>]

----------------------------------------------------------------------------
(* Symbol references and their combination with semantic results *)

\* CodeBlock, as extractCodeBlock returns it (content and lines left out)
CodeBlock(filePath, language) == [filePath |-> filePath, language |-> language]

NoBlock == CodeBlock(NoFile, "")

\* A SymbolReference of resolveSymbol that carries a definition
ResolvedRef(name, type, file, confidence) ==
    [name |-> name, type |-> type,
     definitionFile |-> Some(file),
     definition |-> Some(CodeBlock(file, LanguageOf(file))),
     confidence |-> confidence]

\* A SymbolReference of resolveSymbol without definitionFile and definition
UnresolvedRef(name, type, confidence) ==
    [name |-> name, type |-> type,
     definitionFile |-> None(NoFile),
     definition |-> None(NoBlock),
     confidence |-> confidence]

\* The first loop of combineWithSymbolResolution: one entry per symbol result
\* that has a definition, in the order of symbolResults.
SymbolEntries(symbolResults) ==
    LET hits == SelectSeq(symbolResults, LAMBDA r : r.definition.given)
    IN  [k \in 1..Len(hits) |->
            [unit |->
                [id |-> IF hits[k].definitionFile.given
                           /\ hits[k].definitionFile.value # NoFile
                        THEN <<hits[k].definitionFile.value>>
                        ELSE <<"unknown">>,
                 file |-> IF hits[k].definitionFile.given
                          THEN hits[k].definitionFile.value
                          ELSE NoFile,
                 symbol |-> hits[k].name,
                 language |-> hits[k].definition.value.language,
                 type |-> "function",
                 isExported |-> TRUE],
             score |-> 100,
             confidence |-> "high",
             matchReasons |-> <<"Direct symbol resolution (AST)">>,
             autoInclude |-> TRUE]]

\* new Set(symbolResults.map(r => r.definitionFile).filter(Boolean))
SymbolFiles(symbolResults) ==
    {symbolResults[i].definitionFile.value :
        i \in {j \in 1..Len(symbolResults) :
                 /\ symbolResults[j].definitionFile.given
                 /\ symbolResults[j].definitionFile.value # NoFile}}

\* { ...semantic, matchReasons: ['Semantic context', ...semantic.matchReasons] }
SemanticEntries(semanticResults) ==
    [k \in 1..Len(semanticResults) |->
        [semanticResults[k] EXCEPT !.matchReasons = <<"Semantic context">> \o @]]

\* A combination that puts the semantic results in front.  Not the program's.
combineSemanticFirst(symbolResults, semanticResults) ==
    SemanticEntries(SelectSeq(semanticResults, LAMBDA r :
        r.unit.file \notin SymbolFiles(symbolResults)))
    \o SymbolEntries(symbolResults)

\* A combination that keeps every semantic result.  Not the program's.
combineKeepingDuplicates(symbolResults, semanticResults) ==
    SymbolEntries(symbolResults) \o SemanticEntries(semanticResults)

\* combineWithSymbolResolution
combineWithSymbolResolution(symbolResults, semanticResults) ==
    SymbolEntries(symbolResults)
    \o SemanticEntries(SelectSeq(semanticResults, LAMBDA r :
          r.unit.file \notin SymbolFiles(symbolResults)))

----------------------------------------------------------------------------
(* Source files, parsers and the dependency graph *)

\* A module specifier: prefix "./" or "." for a relative one, "" for a bare
\* one; ext is "" when the specifier names no extension.
Specifier(prefix, stem, ext) == [prefix |-> prefix, stem |-> stem, ext |-> ext]

\* One import of one binding as it is written in a source file:
\* import { imported as local } from '...', or from ... import imported as local
ImportSpec(from, imported, local) ==
    [from |-> from, imported |-> imported, local |-> local]

\* A definition as it stands in a source file: what the parsers record of it
\* (name, type, isExported) and its text, which they do not record
DefinitionWithBody(name, isExported, body) ==
    [name |-> name, type |-> "function", isExported |-> isExported, body |-> body]

\* A definition whose text does not matter
Definition(name, isExported) == DefinitionWithBody(name, isExported, "v1")

\* A source file on disk: its path, the definitions and the imports in it
\* (its content, as far as the parsers read it), its modification time and
\* whether it can be read.  A file written by SourceFile has time 1.
SourceFile(path, definitions, imports) ==
    [path |-> path, definitions |-> definitions, imports |-> imports,
     mtime |-> 1, readable |-> TRUE]

\* String.prototype.startsWith('.') of a module specifier
StartsWithDot(from) == from.prefix \in {"./", "."}

\* The ImportStatement a parser records for one named import.  The
\* TypeScript parser keeps the imported name (s.imported.name) and calls a
\* specifier external unless it starts with '.' or '/'; the Python parser
\* keeps the alias when there is one and calls a module external unless it
\* starts with '.'.
ParseImport(spec, language) ==
    [from |-> spec.from,
     symbols |-> IF language = "python" THEN <<spec.local>> ELSE <<spec.imported>>,
     alias |-> NoSymbol,
     isExternal |-> ~StartsWithDot(spec.from)]

\* crypto.createHash('md5').update(content).digest('hex'): two contents have
\* the same digest only if they are the same content (collisions are not
\* modelled), so the digest is kept as the content it was computed from.
ContentHash(source) ==
    [definitions |-> source.definitions, imports |-> source.imports]

\* parser.parseFile: the FileMetadata of a source file; exports are the
\* exported definitions, lastModified is the mtime that fs.stat reports.
ParseFile(source) ==
    [id |-> source.path,
     path |-> source.path,
     language |-> LanguageOf(source.path),
     imports |-> [i \in 1..Len(source.imports) |->
                    ParseImport(source.imports[i], LanguageOf(source.path))],
     definitions |-> source.definitions,
     exports |-> SelectSeq(source.definitions, LAMBDA d : d.isExported),
     lastModified |-> source.mtime,
     hash |-> ContentHash(source)]

\* The SymbolMetadata entries buildSymbolIndex pushes, in the order it pushes
\* them: files in Map order, definitions in file order
RECURSIVE SymbolsOfFiles(_, _)
SymbolsOfFiles(files, i) ==
    IF i > Len(files) THEN <<>>
    ELSE [k \in 1..Len(files[i].definitions) |->
            [name |-> files[i].definitions[k].name,
             definedIn |-> files[i].path,
             usedIn |-> <<>>,
             type |-> files[i].definitions[k].type,
             definition |-> files[i].definitions[k]]]
         \o SymbolsOfFiles(files, i + 1)

\* graph.symbols.get(name) followed by push, after graph.symbols.set(name, [])
\* for a name that is new: graph.symbols is a Map from a name to the array
\* of its entries.
PushSymbol(symbols, symbolMetadata) ==
    IF MapHas(symbols, symbolMetadata.name)
    THEN [i \in 1..Len(symbols) |->
            IF symbols[i].id = symbolMetadata.name
            THEN [id |-> symbols[i].id,
                  entries |-> Append(symbols[i].entries, symbolMetadata)]
            ELSE symbols[i]]
    ELSE Append(symbols, [id |-> symbolMetadata.name,
                          entries |-> <<symbolMetadata>>])

\* The Map after the first i pushes
RECURSIVE PushSymbols(_, _)
PushSymbols(pushed, i) ==
    IF i = 0 THEN <<>> ELSE PushSymbol(PushSymbols(pushed, i - 1), pushed[i])

\* resolveImportPath of the graph builder: null for a specifier that does not
\* start with '.'; a path without extension gets the first extension of the
\* list.
resolveImportPathOfBuilder(from, currentFile, language) ==
    IF StartsWithDot(from)
    THEN LET resolvedPath ==
                 File(currentFile.dir,
                      IF from.prefix = "./" THEN from.stem ELSE "." \o from.stem,
                      from.ext)
         IN  IF resolvedPath.ext = ""
             THEN Some([resolvedPath EXCEPT
                          !.ext = IF language = "python" THEN ".py" ELSE ".ts"])
             ELSE Some(resolvedPath)
    ELSE None(NoFile)

\* The calls addSymbolUsage(graph, symbolName, filePath) that
\* resolveSymbolUsage makes for the imports i, i+1, ... of one file, in order
RECURSIVE UsagesOfImports(_, _, _)
UsagesOfImports(files, fileMetadata, i) ==
    IF i > Len(fileMetadata.imports) THEN <<>>
    ELSE LET importStmt == fileMetadata.imports[i]
             importedFilePath ==
                 resolveImportPathOfBuilder(importStmt.from, fileMetadata.path,
                                            fileMetadata.language)
         IN  (IF /\ ~importStmt.isExternal
                 /\ importedFilePath.given
                 /\ MapHas(files, importedFilePath.value)
              THEN [k \in 1..Len(importStmt.symbols) |->
                      [symbolName |-> importStmt.symbols[k],
                       filePath |-> fileMetadata.path]]
              ELSE <<>>)
             \o UsagesOfImports(files, fileMetadata, i + 1)

\* The same for the files i, i+1, ... of graph.files
RECURSIVE UsagesOfFiles(_, _)
UsagesOfFiles(files, i) ==
    IF i > Len(files) THEN <<>>
    ELSE UsagesOfImports(files, files[i], 1) \o UsagesOfFiles(files, i + 1)

\* addSymbolUsage: filePath is pushed to usedIn of every entry of the name
\* that does not have it yet
addSymbolUsage(symbols, symbolName, filePath) ==
    [i \in 1..Len(symbols) |->
        IF symbols[i].id = symbolName
        THEN [id |-> symbols[i].id,
              entries |->
                 [k \in 1..Len(symbols[i].entries) |->
                    IF ArrIncludes(symbols[i].entries[k].usedIn, filePath)
                    THEN symbols[i].entries[k]
                    ELSE [symbols[i].entries[k] EXCEPT
                            !.usedIn = Append(@, filePath)]]]
        ELSE symbols[i]]

\* resolveSymbolUsage: the Map after the first i calls of addSymbolUsage
RECURSIVE resolveSymbolUsage(_, _, _)
resolveSymbolUsage(symbols, usages, i) ==
    IF i = 0 THEN symbols
    ELSE addSymbolUsage(resolveSymbolUsage(symbols, usages, i - 1),
                        usages[i].symbolName, usages[i].filePath)

\* buildSymbolIndex: graph.symbols is cleared, filled from the definitions
\* of graph.files, and the usage of the symbols is resolved
buildSymbolIndex(files) ==
    LET pushed == SymbolsOfFiles(files, 1)
        usages == UsagesOfFiles(files, 1)
    IN  resolveSymbolUsage(PushSymbols(pushed, Len(pushed)), usages, Len(usages))

\* graph.symbols.get(name): the entries of one name; none for a name the
\* Map does not have
SymbolsGet(symbols, name) ==
    IF MapHas(symbols, name)
    THEN symbols[CHOOSE i \in 1..Len(symbols) : symbols[i].id = name].entries
    ELSE <<>>

\* graph.files.set(filePath, metadata) for each scanned file in turn
RECURSIVE ParseAll(_, _)
ParseAll(sources, i) ==
    IF i = 0 THEN <<>>
    ELSE MapSet(ParseAll(sources, i - 1), ParseFile(sources[i]))

GRAPH_VERSION == "1.0.0"

\* The languages the parsers report
Languages == {"typescript", "javascript", "python"}

\* stats.languageBreakdown after a build: the number of parsed files of each
\* language (0 stands for a language that is no key of the object)
LanguageBreakdown(files) ==
    [l \in Languages |->
        Cardinality({i \in 1..Len(files) : files[i].language = l})]

\* files.reduce((sum, file) => sum + file.imports.length, 0)
RECURSIVE TotalImports(_, _)
TotalImports(files, i) ==
    IF i = 0 THEN 0 ELSE TotalImports(files, i - 1) + Len(files[i].imports)

\* The one project root of the model
PROJECT_ROOT == "/project"

\* buildDependencyGraph over the files of the project in scan order; a file
\* that cannot be read is recorded as an error and skipped (skipErrors).
buildDependencyGraph(sources) ==
    LET parsed == SelectSeq(sources, LAMBDA f : f.readable)
        files == ParseAll(parsed, Len(parsed))
        symbols == buildSymbolIndex(files)
    IN  [built |-> TRUE, files |-> files, symbols |-> symbols,
         projectRoot |-> PROJECT_ROOT, version |-> GRAPH_VERSION,
         stats |-> [totalFiles |-> Len(files),
                    totalSymbols |-> Len(symbols),
                    totalImports |-> TotalImports(files, Len(files)),
                    languageBreakdown |-> LanguageBreakdown(files)]]

\* graph.files.get(path), for a path the graph has
FilesGet(files, path) == files[CHOOSE i \in 1..Len(files) : files[i].id = path]

\* A path names a file of the project that fs.stat finds
DiskHas(sources, path) == \E k \in 1..Len(sources) : sources[k].path = path

\* The file of the project that a path names
DiskGet(sources, path) ==
    sources[CHOOSE k \in 1..Len(sources) : sources[k].path = path]

\* fs.readFile(path) succeeds
CanRead(sources, path) == DiskHas(sources, path) /\ DiskGet(sources, path).readable

\* The second loop of updateDependencyGraph over changedFiles[1..i]: a file
\* that is read and parsed is set in graph.files; one that cannot be read is
\* logged and left out.
RECURSIVE Reparse(_, _, _, _)
Reparse(files, changedFiles, sources, i) ==
    IF i = 0 THEN files
    ELSE LET before == Reparse(files, changedFiles, sources, i - 1)
         IN  IF CanRead(sources, changedFiles[i])
             THEN MapSet(before, ParseFile(DiskGet(sources, changedFiles[i])))
             ELSE before

\* updateDependencyGraph as it would be without the rebuild of the symbol
\* index
updateDependencyGraphKeepingSymbols(g, changedFiles, sources) ==
    LET kept == SelectSeq(g.files, LAMBDA f : ~ArrIncludes(changedFiles, f.id))
        files == Reparse(kept, changedFiles, sources, Len(changedFiles))
    IN  [g EXCEPT !.files = files,
                  !.stats = [@ EXCEPT !.totalFiles = Len(files),
                                      !.totalSymbols = Len(g.symbols),
                                      !.totalImports = TotalImports(files, Len(files))]]

\* updateDependencyGraph: the changed files are deleted from graph.files and
\* parsed again, the symbol index is rebuilt and totalFiles, totalSymbols and
\* totalImports are recalculated (languageBreakdown is left as it was).
updateDependencyGraph(g, changedFiles, sources) ==
    LET kept == SelectSeq(g.files, LAMBDA f : ~ArrIncludes(changedFiles, f.id))
        files == Reparse(kept, changedFiles, sources, Len(changedFiles))
        symbols == buildSymbolIndex(files)
    IN  [g EXCEPT !.files = files,
                  !.symbols = symbols,
                  !.stats = [@ EXCEPT !.totalFiles = Len(files),
                                      !.totalSymbols = Len(symbols),
                                      !.totalImports = TotalImports(files, Len(files))]]

----------------------------------------------------------------------------
(* The graph cache: src/lib/context/graph-cache.ts *)

\* Array.from(map.entries()): the [key, value] pairs in insertion order
ArrayFromEntries(map) == [k \in 1..Len(map) |-> <<map[k].id, map[k]>>]

\* new Map(pairs): each pair set in turn under its key
RECURSIVE MapFromEntries(_, _)
MapFromEntries(pairs, k) ==
    IF k = 0 THEN <<>>
    ELSE MapSet(MapFromEntries(pairs, k - 1),
                [pairs[k][2] EXCEPT !.id = pairs[k][1]])

\* loadGraphFromCache as it would be if the symbols were not restored
loadGraphFromCacheWithoutSymbols(cache) ==
    IF cache.present /\ cache.parses
    THEN Some([built |-> TRUE,
               files |-> MapFromEntries(cache.files, Len(cache.files)),
               symbols |-> <<>>,
               projectRoot |-> cache.projectRoot,
               version |-> cache.version, stats |-> cache.stats])
    ELSE None([built |-> FALSE, files |-> <<>>, symbols |-> <<>>,
               projectRoot |-> "", version |-> "", stats |-> cache.stats])

\* saveGraphToCache: the file written for the project, the two Maps as arrays
\* of their entries
saveGraphToCache(g) ==
    [present |-> TRUE, parses |-> TRUE,
     files |-> ArrayFromEntries(g.files), symbols |-> ArrayFromEntries(g.symbols),
     projectRoot |-> g.projectRoot, version |-> g.version, stats |-> g.stats]

\* loadGraphFromCache: null when the file is not there or JSON.parse throws;
\* otherwise the graph with its Maps restored.  The version is not looked at.
loadGraphFromCache(cache) ==
    IF cache.present /\ cache.parses
    THEN Some([built |-> TRUE,
               files |-> MapFromEntries(cache.files, Len(cache.files)),
               symbols |-> MapFromEntries(cache.symbols, Len(cache.symbols)),
               projectRoot |-> cache.projectRoot,
               version |-> cache.version, stats |-> cache.stats])
    ELSE None([built |-> FALSE, files |-> <<>>, symbols |-> <<>>,
               projectRoot |-> "", version |-> "", stats |-> cache.stats])

\* The loop body of detectChangedFiles as it would be without the hash check
FileChangedByTimeOnly(metadata, sources) ==
    IF ~DiskHas(sources, metadata.path) THEN TRUE
    ELSE IF DiskGet(sources, metadata.path).mtime > metadata.lastModified THEN TRUE
    ELSE ~DiskGet(sources, metadata.path).readable

\* The body of the loop of detectChangedFiles for one file of the graph
FileChanged(metadata, sources) ==
    IF ~DiskHas(sources, metadata.path) THEN TRUE
    ELSE IF DiskGet(sources, metadata.path).mtime > metadata.lastModified THEN TRUE
    ELSE IF ~DiskGet(sources, metadata.path).readable THEN TRUE
    ELSE ContentHash(DiskGet(sources, metadata.path)) # metadata.hash

\* detectChangedFiles as it would be if it also listed the files of the
\* project that the graph does not know
detectChangedFilesWithNewFiles(g, sources) ==
    LET changed == SelectSeq(g.files, LAMBDA m : FileChanged(m, sources))
        created == SelectSeq(sources, LAMBDA f : ~MapHas(g.files, f.path))
    IN  [i \in 1..Len(changed) |-> changed[i].id]
            \o [i \in 1..Len(created) |-> created[i].path]

\* detectChangedFiles: the paths of the changed files, in the order of
\* graph.files
detectChangedFiles(g, sources) ==
    LET changed == SelectSeq(g.files, LAMBDA m : FileChanged(m, sources))
    IN  [i \in 1..Len(changed) |-> changed[i].id]

\* loadOrBuildGraph as it would be if the updated graph were not saved
loadOrBuildGraphSavingOnlyBuilds(sources, cache, forceRebuild) ==
    LET cachedGraph == loadGraphFromCache(cache)
        changedFiles == detectChangedFiles(cachedGraph.value, sources)
        result == buildDependencyGraph(sources)
    IN  IF ~forceRebuild /\ cachedGraph.given
        THEN [op |-> "loadOrBuildGraph", forceRebuild |-> forceRebuild,
              graph |-> IF Len(changedFiles) = 0 THEN cachedGraph.value
                        ELSE updateDependencyGraph(cachedGraph.value,
                                                   changedFiles, sources),
              fromCache |-> Len(changedFiles) = 0,
              cache |-> cache, cacheHit |-> TRUE,
              changedFiles |-> changedFiles,
              updated |-> Len(changedFiles) > 0, built |-> FALSE, saved |-> FALSE]
        ELSE [op |-> "loadOrBuildGraph", forceRebuild |-> forceRebuild,
              graph |-> result, fromCache |-> FALSE,
              cache |-> saveGraphToCache(result), cacheHit |-> FALSE,
              changedFiles |-> <<>>,
              updated |-> FALSE, built |-> TRUE, saved |-> TRUE]

\* loadOrBuildGraph: what it returns (graph, fromCache), the cache file when
\* it returns, and what it did on the way (the files it found changed,
\* whether it ran updateDependencyGraph or buildDependencyGraph, whether it
\* wrote the cache file).  The project root can be scanned.
loadOrBuildGraph(sources, cache, forceRebuild) ==
    LET cachedGraph == loadGraphFromCache(cache)
        changedFiles == detectChangedFiles(cachedGraph.value, sources)
        updatedGraph == updateDependencyGraph(cachedGraph.value, changedFiles, sources)
        result == buildDependencyGraph(sources)
    IN  IF ~forceRebuild /\ cachedGraph.given
        THEN IF Len(changedFiles) = 0
             THEN [op |-> "loadOrBuildGraph", forceRebuild |-> forceRebuild,
                   graph |-> cachedGraph.value, fromCache |-> TRUE,
                   cache |-> cache, cacheHit |-> TRUE,
                   changedFiles |-> changedFiles,
                   updated |-> FALSE, built |-> FALSE, saved |-> FALSE]
             ELSE [op |-> "loadOrBuildGraph", forceRebuild |-> forceRebuild,
                   graph |-> updatedGraph, fromCache |-> FALSE,
                   cache |-> saveGraphToCache(updatedGraph), cacheHit |-> TRUE,
                   changedFiles |-> changedFiles,
                   updated |-> TRUE, built |-> FALSE, saved |-> TRUE]
        ELSE [op |-> "loadOrBuildGraph", forceRebuild |-> forceRebuild,
              graph |-> result, fromCache |-> FALSE,
              cache |-> saveGraphToCache(result), cacheHit |-> FALSE,
              changedFiles |-> <<>>,
              updated |-> FALSE, built |-> TRUE, saved |-> TRUE]

----------------------------------------------------------------------------
(* The symbol resolver: src/lib/context/symbol-resolver.ts *)

\* path.resolve(path.dirname(currentFile), importPath) for a specifier that
\* starts with '.': './utils' is utils in the directory of currentFile,
\* '.utils' is the file named .utils there.
PathResolve(currentFile, from) ==
    File(currentFile.dir,
         IF from.prefix = "./" THEN from.stem ELSE "." \o from.stem,
         from.ext)

\* resolveImportPath: null for a specifier that does not start with '.';
\* a path without extension gets the first extension of the list.
resolveImportPath(from, currentFile, language) ==
    IF StartsWithDot(from)
    THEN LET resolvedPath == PathResolve(currentFile, from)
         IN  IF resolvedPath.ext = ""
             THEN Some([resolvedPath EXCEPT
                          !.ext = IF language = "python" THEN ".py" ELSE ".ts"])
             ELSE Some(resolvedPath)
    ELSE None(NoFile)

\* Array.prototype.find on definitions or exports by name
HasNamed(defs, name) == \E k \in 1..Len(defs) : defs[k].name = name

\* The loop of resolveSymbol over the imports of currentFile: the reference
\* it returns, if it returns one.
RECURSIVE ResolveThroughImports(_, _, _, _, _)
ResolveThroughImports(symbolName, currentFile, language, imports, files) ==
    IF imports = <<>> THEN None(UnresolvedRef(symbolName, "unknown", 0))
    ELSE LET importStmt == Head(imports)
             importedFilePath ==
                 resolveImportPath(importStmt.from, currentFile, language)
         IN  IF ArrIncludes(importStmt.symbols, symbolName)
                \/ importStmt.alias = symbolName
             THEN IF importStmt.isExternal
                  THEN Some(UnresolvedRef(symbolName, "external", 100))
                  ELSE IF /\ importedFilePath.given
                          /\ MapHas(files, importedFilePath.value)
                          /\ HasNamed(FilesGet(files, importedFilePath.value).exports,
                                      symbolName)
                       THEN Some(ResolvedRef(symbolName, "project",
                                             importedFilePath.value, 100))
                       ELSE ResolveThroughImports(symbolName, currentFile, language,
                                                  Tail(imports), files)
             ELSE ResolveThroughImports(symbolName, currentFile, language,
                                        Tail(imports), files)

\* The last steps of resolveSymbol: the first entry of the global symbol
\* index for the name, if it is exported; otherwise unknown.
resolveGlobally(symbolName, symbols) ==
    LET symbolMetadataArray == SymbolsGet(symbols, symbolName)
    IN  IF Len(symbolMetadataArray) > 0
           /\ symbolMetadataArray[1].definition.isExported
        THEN ResolvedRef(symbolName, "project", symbolMetadataArray[1].definedIn, 70)
        ELSE UnresolvedRef(symbolName, "unknown", 0)

\* resolveSymbol
resolveSymbol(symbolName, currentFile, g) ==
    IF MapHas(g.files, currentFile)
    THEN LET currentFileMetadata == FilesGet(g.files, currentFile)
             viaImports ==
                 ResolveThroughImports(symbolName, currentFile,
                                       currentFileMetadata.language,
                                       currentFileMetadata.imports, g.files)
         IN  IF HasNamed(currentFileMetadata.definitions, symbolName)
             THEN ResolvedRef(symbolName, "local", currentFile, 100)
             ELSE IF viaImports.given THEN viaImports.value
                  ELSE resolveGlobally(symbolName, g.symbols)
    ELSE resolveGlobally(symbolName, g.symbols)

----------------------------------------------------------------------------
(* The semantic index: src/lib/semantic/semantic-index.ts *)

INDEX_VERSION == "1.0.0"

EMBEDDING_MODEL == "text-embedding-004"

\* The embedding service failed for a unit
NoEmbedding == <<>>

\* extractCodeUnits: one unit per definition, files in Map order.  (The sizes
\* of definitions are not modelled, so none is skipped as too large.)
RECURSIVE extractCodeUnits(_, _)
extractCodeUnits(files, i) ==
    IF i > Len(files) THEN <<>>
    ELSE [k \in 1..Len(files[i].definitions) |->
            [CodeUnit(files[i].path, files[i].definitions[k].name,
                      files[i].definitions[k].isExported) EXCEPT !.line = k]]
         \o extractCodeUnits(files, i + 1)

\* crypto.createHash('md5').update(unit.code).digest('hex'): collisions are
\* not modelled
Md5(code) == "md5:" \o code

\* lines.slice(unit.lines.start - 1, unit.lines.end).join('\n') of the file as
\* it is on disk now: '' when the file cannot be read or is shorter
CodeAt(sources, file, line) ==
    IF CanRead(sources, file) /\ line <= Len(DiskGet(sources, file).definitions)
    THEN DiskGet(sources, file).definitions[line].body
    ELSE ""

\* enrichUnitsWithCode with the getFileContent of the semantic index (''
\* for a file that cannot be read): code and hash of every unit are set.
\* (Units come file by file, so grouping them by file keeps their order;
\* no unit is long enough to be truncated.)
enrichUnitsWithCode(units, sources) ==
    [k \in 1..Len(units) |->
        [units[k] EXCEPT !.code = CodeAt(sources, units[k].file, units[k].line),
                         !.hash = Md5(CodeAt(sources, units[k].file, units[k].line))]]

\* The EmbeddingResult of a request that succeeded
EmbeddingResult(unit, embedding) ==
    [id |-> unit.id, unitId |-> unit.id, embedding |-> embedding,
     model |-> EMBEDDING_MODEL, contentHash |-> unit.hash]

\* The results Map of batchGenerateEmbeddings after the first k requests
\* have settled: results.set(unit.id, result) for each that succeeded
RECURSIVE SettledResults(_, _, _, _)
SettledResults(units, outcomes, order, k) ==
    IF k = 0 THEN <<>>
    ELSE LET before == SettledResults(units, outcomes, order, k - 1)
         IN  IF outcomes[order[k]] = NoEmbedding THEN before
             ELSE MapSet(before, EmbeddingResult(units[order[k]], outcomes[order[k]]))

\* batchGenerateEmbeddings: the result Map, filled in the order in which the
\* requests settle; a unit whose request fails sets nothing.  outcomes[i] is
\* what the service answers for units[i], order the order of settling.
batchGenerateEmbeddings(units, outcomes, order) ==
    SettledResults(units, outcomes, order, Len(units))

\* units.find(u => u.id === unitId), or units.get(unitId) of a Map
FindUnit(units, unitId) ==
    IF \E k \in 1..Len(units) : units[k].id = unitId
    THEN Some(units[CHOOSE k \in 1..Len(units) :
                      /\ units[k].id = unitId
                      /\ \A j \in 1..(k - 1) : units[j].id # unitId])
    ELSE None(CodeUnit(NoFile, NoSymbol, FALSE))

\* The embeddings Map and the vector store filled from the first i entries
\* of a Map of embeddings: an entry whose unit is found among units is
\* inserted in the vector store, with that unit, and set in the Map
RECURSIVE InsertAll(_, _, _)
InsertAll(results, units, i) ==
    IF i = 0 THEN [embeddings |-> <<>>, vectorStore |-> <<>>]
    ELSE LET before == InsertAll(results, units, i - 1)
             unit == FindUnit(units, results[i].id)
         IN  IF unit.given
             THEN [embeddings |-> MapSet(before.embeddings,
                                         [id |-> results[i].id,
                                          embedding |-> results[i].embedding]),
                   vectorStore |-> StoreInsert(before.vectorStore, unit.value,
                                               results[i].embedding)]
             ELSE before

\* new Map(units.map(u => [u.id, u]))
RECURSIVE UnitsMap(_, _)
UnitsMap(units, i) ==
    IF i = 0 THEN <<>> ELSE MapSet(UnitsMap(units, i - 1), units[i])

\* The units that buildSemanticIndex embeds: extracted from the graph,
\* enriched from the files as they are, those with empty code dropped
ValidUnits(g, sources) ==
    SelectSeq(enrichUnitsWithCode(extractCodeUnits(g.files, 1), sources),
              LAMBDA u : u.code # "")

\* buildSemanticIndex without options
buildSemanticIndex(g, sources, outcomes, order) ==
    LET validUnits == ValidUnits(g, sources)
        embeddingResults == batchGenerateEmbeddings(validUnits, outcomes, order)
        inserted == InsertAll(embeddingResults, validUnits, Len(embeddingResults))
    IN  [loaded |-> TRUE,
         units |-> UnitsMap(validUnits, Len(validUnits)),
         embeddings |-> inserted.embeddings,
         vectorStore |-> inserted.vectorStore,
         version |-> INDEX_VERSION]

\* saveIndexToCache: units, embeddings and version are written
saveIndexToCache(idx) ==
    [present |-> TRUE, parses |-> TRUE, units |-> idx.units,
     embeddings |-> idx.embeddings, version |-> idx.version]

\* loadIndexFromCache, for a cache file that is present and parses and
\* has the current version: the Maps are restored and every embedding whose
\* unit the units Map has is inserted in a new vector store
loadIndexFromCache(cache) ==
    [loaded |-> TRUE,
     units |-> cache.units,
     embeddings |-> cache.embeddings,
     vectorStore |-> InsertAll(cache.embeddings, cache.units,
                               Len(cache.embeddings)).vectorStore,
     version |-> cache.version]

\* The cache file yields an index: it is there, JSON.parse does not throw
\* and its version is current
CacheUsable(cache) ==
    cache.present /\ cache.parses /\ cache.version = INDEX_VERSION

\* existingEmbeddings.get(unit.id)
EmbeddingsGet(embeddings, id) ==
    IF MapHas(embeddings, id)
    THEN Some(embeddings[CHOOSE k \in 1..Len(embeddings) : embeddings[k].id = id])
    ELSE None(EmbeddingResult(CodeUnit(NoFile, NoSymbol, FALSE), NoEmbedding))

\* needsRegeneration
needsRegeneration(unit, existingEmbedding) ==
    IF ~existingEmbedding.given THEN TRUE
    ELSE IF unit.hash # existingEmbedding.value.contentHash THEN TRUE
    ELSE existingEmbedding.value.model # EMBEDDING_MODEL

\* The units that incrementalGenerateEmbeddings hands to
\* batchGenerateEmbeddings
UnitsToProcess(units, existingEmbeddings) ==
    SelectSeq(units, LAMBDA u :
        needsRegeneration(u, EmbeddingsGet(existingEmbeddings, u.id)))

\* merged.set(id, embedding) for the first i entries of newEmbeddings
RECURSIVE MergeEmbeddings(_, _, _)
MergeEmbeddings(merged, newEmbeddings, i) ==
    IF i = 0 THEN merged
    ELSE MapSet(MergeEmbeddings(merged, newEmbeddings, i - 1), newEmbeddings[i])

\* incrementalGenerateEmbeddings: the Map it returns and the units for which
\* it issued an embedding request
incrementalGenerateEmbeddings(units, existingEmbeddings, outcomes, order) ==
    LET unitsToProcess == UnitsToProcess(units, existingEmbeddings)
        newEmbeddings == batchGenerateEmbeddings(unitsToProcess, outcomes, order)
    IN  [requested |-> unitsToProcess,
         embeddings |->
            IF Len(unitsToProcess) = 0 THEN existingEmbeddings
            ELSE MergeEmbeddings(existingEmbeddings, newEmbeddings,
                                 Len(newEmbeddings))]

\* The removal of updateSemanticIndex as it would be if the vector store
\* were left alone
RemoveChangedKeepingVectors(idx, changedFiles) ==
    LET removed == {idx.units[k].id : k \in
                       {j \in 1..Len(idx.units) :
                           ArrIncludes(changedFiles, idx.units[j].file)}}
    IN  [idx EXCEPT
            !.units = SelectSeq(@, LAMBDA u : u.id \notin removed),
            !.embeddings = SelectSeq(@, LAMBDA e : e.id \notin removed)]

\* The first loop pair of updateSemanticIndex: every unit whose file is in
\* changedFiles is deleted from the units Map, the embeddings Map and the
\* vector store
RemoveChanged(idx, changedFiles) ==
    LET removed == {idx.units[k].id : k \in
                       {j \in 1..Len(idx.units) :
                           ArrIncludes(changedFiles, idx.units[j].file)}}
    IN  [idx EXCEPT
            !.units = SelectSeq(@, LAMBDA u : u.id \notin removed),
            !.embeddings = SelectSeq(@, LAMBDA e : e.id \notin removed),
            !.vectorStore = SelectSeq(@, LAMBDA v : v.id \notin removed)]

\* The new units of updateSemanticIndex as they would be if the units of
\* the graph were not filtered by changedFiles
EnrichedUnitsOfGraph(changedFiles, g, sources) ==
    enrichUnitsWithCode(extractCodeUnits(g.files, 1), sources)

\* The units of the changed files in the given graph, enriched
EnrichedNewUnits(changedFiles, g, sources) ==
    enrichUnitsWithCode(
        SelectSeq(extractCodeUnits(g.files, 1),
                  LAMBDA u : ArrIncludes(changedFiles, u.file)),
        sources)

\* existingEmbeddingResults of updateSemanticIndex: an EmbeddingResult for
\* every entry of index.embeddings, with the hash of its unit
ExistingEmbeddingResults(idx) ==
    [k \in 1..Len(idx.embeddings) |->
        [id |-> idx.embeddings[k].id,
         unitId |-> idx.embeddings[k].id,
         embedding |-> idx.embeddings[k].embedding,
         model |-> EMBEDDING_MODEL,
         contentHash |-> IF FindUnit(idx.units, idx.embeddings[k].id).given
                         THEN FindUnit(idx.units, idx.embeddings[k].id).value.hash
                         ELSE ""]]

\* The last loop of updateSemanticIndex over the first i entries of
\* newEmbeddings: an entry whose unit is one of the new units is inserted
RECURSIVE InsertNew(_, _, _, _)
InsertNew(idx, newEmbeddings, enrichedNewUnits, i) ==
    IF i = 0 THEN idx
    ELSE LET before == InsertNew(idx, newEmbeddings, enrichedNewUnits, i - 1)
             unit == FindUnit(enrichedNewUnits, newEmbeddings[i].id)
         IN  IF unit.given
             THEN [before EXCEPT
                     !.vectorStore = StoreInsert(@, unit.value,
                                                 newEmbeddings[i].embedding),
                     !.embeddings = MapSet(@, [id |-> newEmbeddings[i].id,
                                               embedding |-> newEmbeddings[i].embedding]),
                     !.units = MapSet(@, unit.value)]
             ELSE before

\* updateSemanticIndex: the index it returns (units, embeddings,
\* vectorStore) and the units for which it issued an embedding request
updateSemanticIndex(idx, changedFiles, g, sources, outcomes, order) ==
    LET kept == RemoveChanged(idx, changedFiles)
        enrichedNewUnits == EnrichedNewUnits(changedFiles, g, sources)
        generated == incrementalGenerateEmbeddings(
                         enrichedNewUnits, ExistingEmbeddingResults(kept),
                         outcomes, order)
        newEmbeddings == generated.embeddings
        updated == InsertNew(kept, newEmbeddings, enrichedNewUnits,
                             Len(newEmbeddings))
    IN  [loaded |-> TRUE, units |-> updated.units,
         embeddings |-> updated.embeddings,
         vectorStore |-> updated.vectorStore, version |-> idx.version,
         requested |-> generated.requested]

\* loadOrBuildSemanticIndex: the index it returns, fromCache, and the cache
\* file when it returns
loadOrBuildSemanticIndex(g, sources, cache, forceRebuild, outcomes, order) ==
    IF ~forceRebuild /\ CacheUsable(cache)
    THEN [index |-> loadIndexFromCache(cache), fromCache |-> TRUE, cache |-> cache]
    ELSE [index |-> buildSemanticIndex(g, sources, outcomes, order),
          fromCache |-> FALSE,
          cache |-> saveIndexToCache(buildSemanticIndex(g, sources, outcomes, order))]

----------------------------------------------------------------------------
(* Values of the variables a specification leaves alone *)

NoCombination ==
    [called |-> FALSE, symbolResults |-> <<>>, semanticResults |-> <<>>,
     combined |-> <<>>]
NoGraph ==
    [built |-> FALSE, files |-> <<>>, symbols |-> <<>>, projectRoot |-> "",
     version |-> "",
     stats |-> [totalFiles |-> 0, totalSymbols |-> 0, totalImports |-> 0,
                languageBreakdown |-> [l \in Languages |-> 0]]]
NoResolution ==
    [called |-> FALSE, symbolName |-> NoSymbol, currentFile |-> NoFile,
     result |-> UnresolvedRef(NoSymbol, "unknown", 0)]
NoDisk == <<>>
NoIndex == [loaded |-> FALSE, units |-> <<>>, embeddings |-> <<>>, version |-> ""]
NoCache ==
    [present |-> FALSE, parses |-> FALSE, units |-> <<>>, embeddings |-> <<>>,
     version |-> ""]
NoGraphCache ==
    [present |-> FALSE, parses |-> FALSE, files |-> <<>>, symbols |-> <<>>,
     projectRoot |-> "", version |-> "", stats |-> NoGraph.stats]
NoCall == [op |-> "none"]

----------------------------------------------------------------------------
(* SpecRetrieve: an index is filled unit by unit, then queried *)

\* The definitions of the indexed project, in the order in which
\* extractCodeUnits meets them (graph.files order, then source order).
RetrieveDefinitions ==
    << <<MainTs, SymFmt>>, <<MainTs, SymFmtCap>>, <<MainTs, SymGet>>,
       <<UtilsTs, SymFmt>>, <<UtilsTs, SymFmtCap>>, <<UtilsTs, SymGet>> >>

RetrieveVectors == {Vec28, Vec60, Vec68, Vec96}

\* The place in RetrieveDefinitions of the unit indexed last (0 if none)
LastIndexed ==
    IF vectorStore = <<>> THEN 0
    ELSE CHOOSE k \in 1..Len(RetrieveDefinitions) :
            RetrieveDefinitions[k] = vectorStore[Len(vectorStore)].id

RetrieveQueries == {Query(<<SymFmt>>, "typescript", MainTs)}

RetrieveOptions ==
    {Options(m, c, x) : m \in {None(0), Some(0), Some(1), Some(6)},
                        c \in {None(TRUE), Some(FALSE)},
                        x \in {None(FALSE), Some(TRUE)}}

InitRetrieve ==
    /\ vectorStore = <<>>
    /\ retrieval = NoRetrieval
    /\ combination = NoCombination
    /\ graph = NoGraph
    /\ resolution = NoResolution
    /\ disk = NoDisk
    /\ index = NoIndex
    /\ semanticCache = NoCache
    /\ graphCache = NoGraphCache
    /\ call = NoCall

\* vectorStore.insert(unitId, embedding, { unit }) while the index is built
IndexUnit ==
    /\ ~retrieval.called
    /\ Len(vectorStore) < MaxVectors
    /\ \E k \in (LastIndexed + 1)..Len(RetrieveDefinitions),
          isExported \in BOOLEAN, embedding \in RetrieveVectors :
          LET unit == CodeUnit(RetrieveDefinitions[k][1], RetrieveDefinitions[k][2],
                               isExported)
          IN  vectorStore' = StoreInsert(vectorStore, unit, embedding)
    /\ UNCHANGED <<retrieval, combination, graph, resolution, disk, index,
                   semanticCache,
       graphCache, call>>

\* A call of retrieveRelevantCode on the index.  The call reads the index and
\* changes nothing, so one call per index covers every later one.
Retrieve ==
    /\ ~retrieval.called
    /\ \E query \in RetrieveQueries, options \in RetrieveOptions :
          retrieval' = retrieveRelevantCode(query, VecQuery, vectorStore, options)
    /\ UNCHANGED <<vectorStore, combination, graph, resolution, disk, index,
                   semanticCache,
       graphCache, call>>

NextRetrieve == IndexUnit \/ Retrieve

SpecRetrieve == InitRetrieve /\ [][NextRetrieve]_vars

----------------------------------------------------------------------------
(* Properties of retrieveRelevantCode, checked under SpecRetrieve *)

\* C3: a candidate in the medium band is in the returned list only if its
\* symbol name is one of the query's symbols or it is exported, whatever the
\* options, the defaults included.
C3_MediumReturnedOnlyIfCorroborated ==
    retrieval.called =>
        \A i \in 1..Len(retrieval.final) :
            LET r == retrieval.final[i]
            IN  (r.score >= MEDIUM_CONFIDENCE /\ r.score < HIGH_CONFIDENCE) =>
                    \/ ArrIncludes(retrieval.query.symbols, r.unit.symbol)
                    \/ r.unit.isExported

\* C4: every candidate is banded by its final score: at or above 0.7 it is
\* high and auto-included, from 0.6 up to 0.7 it is medium, below 0.6 it is
\* low and not auto-included; and no returned entry has a final score below
\* 0.6, whatever its symbol match, its export status or the options.
C4_BandsFollowFinalScore ==
    retrieval.called =>
        /\ \A i \in 1..Len(retrieval.ranked) :
              LET r == retrieval.ranked[i]
              IN  /\ r.score >= HIGH_CONFIDENCE =>
                        r.confidence = "high" /\ r.autoInclude
                  /\ (r.score >= MEDIUM_CONFIDENCE /\ r.score < HIGH_CONFIDENCE) =>
                        r.confidence = "medium"
                  /\ r.score < MEDIUM_CONFIDENCE =>
                        r.confidence = "low" /\ ~r.autoInclude
        /\ \A i \in 1..Len(retrieval.final) :
              /\ retrieval.final[i].score >= MEDIUM_CONFIDENCE
              /\ retrieval.final[i].confidence # "low"

\* A call that ranks a candidate of final score exactly 0.7 together with an
\* exported candidate below 0.6, and returns the first without the second.
C4_Witness ==
    /\ retrieval.called
    /\ \E i, j \in 1..Len(retrieval.ranked) :
          /\ retrieval.ranked[i].score = HIGH_CONFIDENCE
          /\ retrieval.ranked[j].score < MEDIUM_CONFIDENCE
          /\ retrieval.ranked[j].unit.isExported
          /\ Len(retrieval.final) = 1
          /\ retrieval.final[1] = retrieval.ranked[i]

\* C5: with an explicit maxResults the returned list has at most that many
\* entries, for every value of the option, 0 and values above 5 included.
C5_ExplicitMaxResultsBoundsTheList ==
    (retrieval.called /\ retrieval.options.maxResults.given) =>
        Len(retrieval.final) <= retrieval.options.maxResults.value

----------------------------------------------------------------------------
(* SpecFanOut: many same-named definitions, one per directory *)

\* The first five directories define get, the later ones put.
FanOutSymbol(dir) == IF dir <= FAN_OUT_WINDOW THEN SymGet ELSE SymPut
FanOutVectors == {Vec60, Vec68}
FanOutQuery == Query(<<SymFmt>>, "typescript", MainTs)
FanOutOptions == {Options(None(0), c, None(FALSE)) : c \in {None(TRUE), Some(FALSE)}}

\* The next indexed unit is a definition of mod.ts in the next directory.
IndexFanOutUnit ==
    /\ ~retrieval.called
    /\ Len(vectorStore) < MaxFanOut
    /\ \E e \in BOOLEAN, embedding \in FanOutVectors :
          LET dir == Len(vectorStore) + 1
          IN  vectorStore' =
                  StoreInsert(vectorStore,
                              CodeUnit(File(dir, "mod", ".ts"), FanOutSymbol(dir), e),
                              embedding)
    /\ UNCHANGED <<retrieval, combination, graph, resolution, disk, index,
                   semanticCache,
       graphCache, call>>

RetrieveFanOut ==
    /\ ~retrieval.called
    /\ \E options \in FanOutOptions :
          retrieval' = retrieveRelevantCode(FanOutQuery, VecQuery, vectorStore, options)
    /\ UNCHANGED <<vectorStore, combination, graph, resolution, disk, index,
                   semanticCache,
       graphCache, call>>

NextFanOut == IndexFanOutUnit \/ RetrieveFanOut

SpecFanOut == InitRetrieve /\ [][NextFanOut]_vars

----------------------------------------------------------------------------
(* Properties of the result-count policy, checked under SpecFanOut *)

\* The distinct symbol names among the first five entries of a list
TopFiveSymbols(results) ==
    {results[i].unit.symbol : i \in 1..Min(5, Len(results))}

\* The candidates of the last call that the band filter lets through, in
\* ranked order: the high ones, and the medium ones unless
\* includeConditional is false and the candidate is not corroborated.
BandSurvivors ==
    SelectSeq(retrieval.ranked, LAMBDA r :
        \/ r.score >= HIGH_CONFIDENCE
        \/ /\ r.score >= MEDIUM_CONFIDENCE
           /\ \/ retrieval.options.includeConditional = None(TRUE)
              \/ ArrIncludes(retrieval.query.symbols, r.unit.symbol)
              \/ r.unit.isExported)

\* C6 as stated: without a maxResults option at most 5 results are returned
\* if more than one distinct symbol name appears among the top 5 scored
\* candidates, and at most 3 otherwise.
C6_LimitFromTopFiveScored ==
    (retrieval.called /\ ~retrieval.options.maxResults.given) =>
        Len(retrieval.final) <=
            (IF Cardinality(TopFiveSymbols(retrieval.ranked)) > 1 THEN 5 ELSE 3)

\* C6 amended: without a maxResults option at most 5 results are returned if
\* more than one distinct symbol name appears among the first 5 candidates
\* that pass the confidence-band filter, and at most 3 otherwise.
C6_LimitFromTopFiveFiltered ==
    (retrieval.called /\ ~retrieval.options.maxResults.given) =>
        Len(retrieval.final) <=
            (IF Cardinality(TopFiveSymbols(BandSurvivors)) > 1 THEN 5 ELSE 3)

\* A call without maxResults in which more than 3 candidates pass the filter,
\* the first five of them share one symbol name, and 3 are returned.
C6_Witness ==
    /\ retrieval.called
    /\ ~retrieval.options.maxResults.given
    /\ Len(BandSurvivors) > 3
    /\ Cardinality(TopFiveSymbols(BandSurvivors)) = 1
    /\ Len(retrieval.final) = 3

----------------------------------------------------------------------------
(* SpecCombine: symbol results and semantic results are collected, then
   combined *)

\* Results of resolveSymbol for the symbols of a line of main.ts
CombineSymbolResults ==
    {ResolvedRef(SymFmt, "local", MainTs, 100),
     ResolvedRef(SymFmt, "project", UtilsTs, 100),
     ResolvedRef(SymGet, "project", ModTs, 70),
     UnresolvedRef(SymGet, "external", 100),
     UnresolvedRef(SymPut, "unknown", 0)}

\* Ranked results for the query fmt of main.ts: an exported fmt at similarity
\* 0.96 or an exported get at similarity 0.60, in one of three files.
CombineSemanticResults ==
    {RankResult([id |-> <<f, c[1]>>, similarity |-> c[2],
                 metadata |-> [unit |-> CodeUnit(f, c[1], TRUE)]],
                Query(<<SymFmt>>, "typescript", MainTs)) :
        f \in {MainTs, UtilsTs, ModTs}, c \in {<<SymFmt, 96>>, <<SymGet, 60>>}}

\* resolveSymbol returns one more reference
CollectSymbolResult ==
    /\ ~combination.called
    /\ Len(combination.symbolResults) < MaxSymbolResults
    /\ \E r \in CombineSymbolResults :
          combination' = [combination EXCEPT !.symbolResults = Append(@, r)]
    /\ UNCHANGED <<vectorStore, retrieval, graph, resolution, disk, index,
                   semanticCache,
       graphCache, call>>

\* retrieveRelevantCode returns one more ranked result
CollectSemanticResult ==
    /\ ~combination.called
    /\ Len(combination.semanticResults) < MaxSemanticResults
    /\ \E r \in CombineSemanticResults :
          combination' = [combination EXCEPT !.semanticResults = Append(@, r)]
    /\ UNCHANGED <<vectorStore, retrieval, graph, resolution, disk, index,
                   semanticCache,
       graphCache, call>>

\* combineWithSymbolResolution(symbolResults, semanticResults)
Combine ==
    /\ ~combination.called
    /\ combination' =
          [combination EXCEPT
              !.called = TRUE,
              !.combined = combineWithSymbolResolution(combination.symbolResults,
                                                       combination.semanticResults)]
    /\ UNCHANGED <<vectorStore, retrieval, graph, resolution, disk, index,
                   semanticCache,
       graphCache, call>>

NextCombine == CollectSymbolResult \/ CollectSemanticResult \/ Combine

SpecCombine == InitRetrieve /\ [][NextCombine]_vars

----------------------------------------------------------------------------
(* Properties of combineWithSymbolResolution, checked under SpecCombine *)

\* The symbol results of the last combination that found a definition
CombinedHits == SelectSeq(combination.symbolResults, LAMBDA r : r.definition.given)

\* The files named as definitionFile by the symbol results
CombinedHitFiles ==
    {combination.symbolResults[i].definitionFile.value :
        i \in {j \in 1..Len(combination.symbolResults) :
                 combination.symbolResults[j].definitionFile.given}}

\* C1: the combined list starts with one entry per symbol-resolution hit, in
\* order, each with score 1.0, confidence high and autoInclude true; every
\* entry after them is a semantic one, so no semantic entry, whatever its
\* score, precedes or replaces a symbol-resolution entry.
C1_SymbolResolutionFirst ==
    combination.called =>
        LET c == combination.combined
            n == Len(CombinedHits)
        IN  /\ Len(c) >= n
            /\ \A k \in 1..n :
                  /\ c[k].matchReasons = <<"Direct symbol resolution (AST)">>
                  /\ c[k].unit.symbol = CombinedHits[k].name
                  /\ c[k].unit.file = CombinedHits[k].definitionFile.value
                  /\ c[k].score = 100
                  /\ c[k].confidence = "high"
                  /\ c[k].autoInclude
            /\ \A k \in (n + 1)..Len(c) :
                  /\ Head(c[k].matchReasons) = "Semantic context"
                  /\ \E i \in 1..Len(combination.semanticResults) :
                        c[k].unit = combination.semanticResults[i].unit

\* A combination of a symbol-resolution hit with a semantic result of score
\* 1.0 from another file: both are in the list, the hit first.
C1_Witness ==
    /\ combination.called
    /\ Len(CombinedHits) >= 1
    /\ \E k \in 2..Len(combination.combined) :
          /\ Head(combination.combined[k].matchReasons) = "Semantic context"
          /\ combination.combined[k].score = 100
    /\ combination.combined[1].matchReasons = <<"Direct symbol resolution (AST)">>

\* C2: the semantic entries of the combined list are exactly the semantic
\* results whose file is the definitionFile of no symbol result, in the order
\* in which they were given.
C2_NoSemanticDuplicateOfSymbolFile ==
    combination.called =>
        LET sem == SelectSeq(combination.combined, LAMBDA e :
                       Head(e.matchReasons) = "Semantic context")
            expected == SelectSeq(combination.semanticResults, LAMBDA r :
                            r.unit.file \notin CombinedHitFiles)
        IN  /\ \A k \in 1..Len(sem) : sem[k].unit.file \notin CombinedHitFiles
            /\ Len(sem) = Len(expected)
            /\ \A k \in 1..Len(sem) :
                  /\ sem[k].unit = expected[k].unit
                  /\ sem[k].score = expected[k].score
                  /\ sem[k].confidence = expected[k].confidence
                  /\ sem[k].autoInclude = expected[k].autoInclude
                  /\ Tail(sem[k].matchReasons) = expected[k].matchReasons

\* A combination in which one semantic result is dropped for sharing its file
\* with a symbol result and a later one from another file is kept.
C2_Witness ==
    /\ combination.called
    /\ Len(combination.semanticResults) = 2
    /\ combination.semanticResults[1].unit.file \in CombinedHitFiles
    /\ combination.semanticResults[2].unit.file \notin CombinedHitFiles
    /\ \E k \in 1..Len(combination.combined) :
          combination.combined[k].unit = combination.semanticResults[2].unit

----------------------------------------------------------------------------
(* SpecResolve: a project is written, its graph is built, and a symbol of
   its first file is resolved *)

\* The import bindings a current file of the given language may hold: fmt
\* from the sibling module utils or from a package, under its own name or
\* renamed; in TypeScript also fmt from './utils.jsx'.
ResolveImports(language) ==
    LET relative == IF language = "python" THEN "." ELSE "./"
    IN  {ImportSpec(Specifier(relative, "utils", ""), SymFmt, SymFmt),
         ImportSpec(Specifier("", "react", ""), SymFmt, SymFmt),
         ImportSpec(Specifier(relative, "utils", ""), SymFmt, SymGet),
         ImportSpec(Specifier("", "react", ""), SymGet, SymFmt)}
        \cup (IF language = "python" THEN {}
              ELSE {ImportSpec(Specifier("./", "utils", ".jsx"), SymFmt, SymFmt)})

\* The other files a project may hold, each with one definition of fmt
ResolvePaths ==
    {File(0, "utils", ext) : ext \in {".ts", ".tsx", ".js", ".jsx", ".py"}}
    \cup {ModTs}

InitResolve ==
    /\ disk \in {<<SourceFile(MainTs, <<>>, <<>>)>>, <<SourceFile(MainPy, <<>>, <<>>)>>}
    /\ vectorStore = <<>>
    /\ retrieval = NoRetrieval
    /\ combination = NoCombination
    /\ graph = NoGraph
    /\ resolution = NoResolution
    /\ index = NoIndex
    /\ semanticCache = NoCache
    /\ graphCache = NoGraphCache
    /\ call = NoCall

\* One more import binding is written into the current file
WriteImport ==
    /\ ~graph.built
    /\ Len(disk[1].imports) < MaxImports
    /\ \E spec \in ResolveImports(LanguageOf(disk[1].path)) :
          disk' = [disk EXCEPT ![1].imports = Append(@, spec)]
    /\ UNCHANGED <<vectorStore, retrieval, combination, graph, resolution, index,
                   semanticCache,
       graphCache, call>>

\* A definition of fmt is written into the current file
WriteLocalDefinition ==
    /\ ~graph.built
    /\ disk[1].definitions = <<>>
    /\ disk' = [disk EXCEPT ![1].definitions = <<Definition(SymFmt, FALSE)>>]
    /\ UNCHANGED <<vectorStore, retrieval, combination, graph, resolution, index,
                   semanticCache,
       graphCache, call>>

\* One more file defining fmt is written; no two files share a base name
WriteFile ==
    /\ ~graph.built
    /\ Len(disk) < MaxFiles
    /\ \E path \in ResolvePaths, isExported \in BOOLEAN :
          /\ \A k \in 1..Len(disk) : disk[k].path.base # path.base
          /\ disk' = Append(disk,
                        SourceFile(path, <<Definition(SymFmt, isExported)>>, <<>>))
    /\ UNCHANGED <<vectorStore, retrieval, combination, graph, resolution, index,
                   semanticCache,
       graphCache, call>>

\* buildDependencyGraph over the project
BuildGraph ==
    /\ ~graph.built
    /\ graph' = buildDependencyGraph(disk)
    /\ UNCHANGED <<vectorStore, retrieval, combination, resolution, disk, index,
                   semanticCache,
       graphCache, call>>

\* resolveSymbol(symbolName, currentFile, graph) for the first file
Resolve ==
    /\ graph.built
    /\ ~resolution.called
    /\ \E symbolName \in {SymFmt, SymGet} :
          resolution' =
              [called |-> TRUE, symbolName |-> symbolName,
               currentFile |-> disk[1].path,
               result |-> resolveSymbol(symbolName, disk[1].path, graph)]
    /\ UNCHANGED <<vectorStore, retrieval, combination, graph, disk, index,
                   semanticCache,
       graphCache, call>>

NextResolve ==
    WriteImport \/ WriteLocalDefinition \/ WriteFile \/ BuildGraph \/ Resolve

SpecResolve == InitResolve /\ [][NextResolve]_vars

----------------------------------------------------------------------------
(* Properties of resolveSymbol, checked under SpecResolve *)

\* The current file defines the name
DefinedLocally(name) == HasNamed(disk[1].definitions, name)

\* The current file binds the name by an import from a non-relative source
ImportsExternally(name) ==
    \E i \in 1..Len(disk[1].imports) :
        /\ disk[1].imports[i].local = name
        /\ ~StartsWithDot(disk[1].imports[i].from)

\* The k-th file of the project is the module that the specifier names for
\* an importer: the sibling file of that stem, with the extension the
\* specifier gives or, if it gives none, a source extension of the
\* importer's language family.
IsImportedModule(k, from, importer) ==
    /\ StartsWithDot(from)
    /\ disk[k].path.dir = importer.dir
    /\ disk[k].path.base = from.stem
    /\ IF from.ext # "" THEN disk[k].path.ext = from.ext
       ELSE IF importer.ext = ".py" THEN disk[k].path.ext = ".py"
       ELSE disk[k].path.ext \in {".ts", ".tsx", ".js", ".jsx"}

\* The k-th file of the project holds an exported definition of the name
ExportsName(k, name) ==
    \E d \in 1..Len(disk[k].definitions) :
        disk[k].definitions[d].name = name /\ disk[k].definitions[d].isExported

\* C7: a name defined in currentFile resolves to local with confidence 1.0
\* and definitionFile = currentFile, whatever the imports and the other
\* files; otherwise a name that currentFile imports from an external source
\* resolves to external with confidence 1.0 and no definition.
C7_LocalThenExternal ==
    resolution.called =>
        LET n == resolution.symbolName
            r == resolution.result
        IN  /\ DefinedLocally(n) =>
                  /\ r.type = "local"
                  /\ r.confidence = 100
                  /\ r.definitionFile = Some(resolution.currentFile)
            /\ (~DefinedLocally(n) /\ ImportsExternally(n)) =>
                  /\ r.type = "external"
                  /\ r.confidence = 100
                  /\ ~r.definition.given

\* C8: if currentFile does not define N but imports N by a relative import
\* whose module is a project file exporting N, the result is project with
\* confidence 1.0 and definitionFile that file, whichever of the extensions
\* .ts, .tsx, .js, .jsx, .py the file has.
C8_RelativeImportResolvesToProject ==
    resolution.called =>
        LET n == resolution.symbolName
            r == resolution.result
        IN  \A i \in 1..Len(disk[1].imports), k \in 1..Len(disk) :
                (/\ ~DefinedLocally(n)
                 /\ disk[1].imports[i].imported = n
                 /\ disk[1].imports[i].local = n
                 /\ IsImportedModule(k, disk[1].imports[i].from, disk[1].path)
                 /\ ExportsName(k, n)) =>
                    /\ r.type = "project"
                    /\ r.confidence = 100
                    /\ r.definitionFile = Some(disk[k].path)

\* C9: if N is neither defined in currentFile nor resolved through its
\* imports and some definition of N in the global symbol index is exported,
\* the result is project with confidence 0.7 and a definitionFile holding an
\* exported definition of N; the result is unknown (confidence 0.0) only
\* when no definition of N in the index is exported.
C9_GlobalIndexFindsAnyExported ==
    resolution.called =>
        LET n == resolution.symbolName
            r == resolution.result
            current == FilesGet(graph.files, resolution.currentFile)
            viaImports == ResolveThroughImports(n, resolution.currentFile,
                              current.language, current.imports, graph.files)
            someExported ==
                \E m \in 1..Len(SymbolsGet(graph.symbols, n)) :
                    SymbolsGet(graph.symbols, n)[m].definition.isExported
        IN  (~DefinedLocally(n) /\ ~viaImports.given) =>
                /\ someExported =>
                      /\ r.type = "project"
                      /\ r.confidence = 70
                      /\ r.definitionFile.given
                      /\ \E k \in 1..Len(disk) :
                            /\ disk[k].path = r.definitionFile.value
                            /\ ExportsName(k, n)
                /\ r.type = "unknown" => (r.confidence = 0 /\ ~someExported)

----------------------------------------------------------------------------
(* SpecProject: the files of a project are edited between requests; each
   request loads the graph and the semantic index, resolves a symbol of
   main.ts and retrieves semantic results for it *)

\* What utils.ts may define
ProjectDefinitions ==
    {Definition(SymFmt, TRUE), Definition(SymGet, TRUE), Definition(SymPut, FALSE)}

\* What the embedding service may answer for a unit
ServiceOutcomes == {Vec60, Vec96, NoEmbedding}

InitProject ==
    /\ disk = <<SourceFile(MainTs, <<>>, <<>>),
                SourceFile(UtilsTs, <<Definition(SymFmt, TRUE)>>, <<>>)>>
    /\ vectorStore = <<>>
    /\ retrieval = NoRetrieval
    /\ combination = NoCombination
    /\ graph = NoGraph
    /\ resolution = NoResolution
    /\ index = NoIndex
    /\ semanticCache = NoCache
    /\ graphCache = NoGraphCache
    /\ call = NoCall

\* A definition is added to utils.ts; the results of the last request are
\* gone.
AddDefinition ==
    /\ Len(disk[2].definitions) < MaxDefinitions
    /\ \E d \in ProjectDefinitions :
          /\ ~HasNamed(disk[2].definitions, d.name)
          /\ disk' = [disk EXCEPT ![2].definitions = Append(@, d)]
    /\ retrieval' = NoRetrieval
    /\ resolution' = NoResolution
    /\ UNCHANGED <<vectorStore, combination, graph, index, semanticCache,
       graphCache, call>>

\* A definition is removed from utils.ts; the results of the last request
\* are gone.
RemoveDefinition ==
    /\ \E k \in 1..Len(disk[2].definitions) :
          disk' = [disk EXCEPT ![2].definitions =
                      SubSeq(@, 1, k - 1) \o SubSeq(@, k + 1, Len(@))]
    /\ retrieval' = NoRetrieval
    /\ resolution' = NoResolution
    /\ UNCHANGED <<vectorStore, combination, graph, index, semanticCache,
       graphCache, call>>

\* One request: the graph reflects the files as they are, the semantic
\* index comes from loadOrBuildSemanticIndex (the cached one if the cache
\* yields one, else a new one that is saved), the symbol is resolved and
\* retrieveRelevantCode is called with maxResults 3.
Explain ==
    \E symbolName \in {SymFmt, SymGet} :
        LET g == buildDependencyGraph(disk)
            n == Len(ValidUnits(g, disk))
            query == Query(<<symbolName>>, "typescript", MainTs)
            options == Options(Some(3), None(TRUE), None(FALSE))
        IN  /\ graph' = g
            /\ resolution' =
                  [called |-> TRUE, symbolName |-> symbolName, currentFile |-> MainTs,
                   result |-> resolveSymbol(symbolName, MainTs, g)]
            /\ IF CacheUsable(semanticCache)
               THEN LET cached == loadIndexFromCache(semanticCache)
                    IN  /\ index' = [k \in DOMAIN NoIndex |-> cached[k]]
                        /\ vectorStore' = cached.vectorStore
                        /\ UNCHANGED semanticCache
                        /\ retrieval' = retrieveRelevantCode(query, VecQuery,
                                            cached.vectorStore, options)
               ELSE \E outcomes \in [1..n -> ServiceOutcomes],
                       order \in Permutations(1..n) :
                        LET built == buildSemanticIndex(g, disk, outcomes, order)
                        IN  /\ index' = [k \in DOMAIN NoIndex |-> built[k]]
                            /\ vectorStore' = built.vectorStore
                            /\ semanticCache' = saveIndexToCache(built)
                            /\ retrieval' = retrieveRelevantCode(query, VecQuery,
                                                built.vectorStore, options)
            /\ UNCHANGED <<combination, disk, graphCache, call>>

NextProject == AddDefinition \/ RemoveDefinition \/ Explain

SpecProject == InitProject /\ [][NextProject]_vars

----------------------------------------------------------------------------
(* Properties of a request, checked under SpecProject *)

\* C10: for a name that no file of the project defines and that main.ts does
\* not import, resolveSymbol returns unknown with confidence 0.0 and no
\* definition, and no result of retrieveRelevantCode over the index that
\* loadOrBuildSemanticIndex gave for the project has that name as its unit
\* symbol with autoInclude true.
C10_UnknownNameNeverAutoIncluded ==
    (resolution.called /\ retrieval.called) =>
        LET name == resolution.symbolName
            undefinedEverywhere ==
                \A k \in 1..Len(disk) : ~HasNamed(disk[k].definitions, name)
            notImported ==
                \A i \in 1..Len(disk[1].imports) :
                    /\ disk[1].imports[i].local # name
                    /\ disk[1].imports[i].imported # name
        IN  (undefinedEverywhere /\ notImported) =>
                /\ resolution.result.type = "unknown"
                /\ resolution.result.confidence = 0
                /\ ~resolution.result.definition.given
                /\ \A i \in 1..Len(retrieval.final) :
                      ~(/\ retrieval.final[i].unit.symbol = name
                        /\ retrieval.final[i].autoInclude)

----------------------------------------------------------------------------
(* SpecGraphCache: between the calls of loadOrBuildGraph for a project its
   files are edited, touched, made unreadable, deleted and created, and its graph
   cache file is damaged or removed; what a call returned is gone once the
   project or the cache file changes *)

\* What a file of the project may define
GraphCacheContents == {<<>>, <<Definition(SymFmt, TRUE)>>}

\* The modification times a file may have
Mtimes == {1, 2}

\* The version of a cache file that another release of the program wrote
OTHER_VERSION == "0.9.0"

InitGraphCache ==
    /\ disk = <<SourceFile(MainTs, <<>>,
                            <<ImportSpec(Specifier("./", "utils", ""), SymFmt, SymFmt)>>),
                SourceFile(UtilsTs, <<Definition(SymFmt, TRUE)>>, <<>>)>>
    /\ vectorStore = <<>>
    /\ retrieval = NoRetrieval
    /\ combination = NoCombination
    /\ graph = NoGraph
    /\ resolution = NoResolution
    /\ index = NoIndex
    /\ semanticCache = NoCache
    /\ graphCache = NoGraphCache
    /\ call = NoCall

\* The content of a file is rewritten; its modification time is what the
\* tool that wrote it leaves (an editor the current time, a checkout or a
\* restore possibly an older one).
EditFile ==
    /\ \E k \in 1..Len(disk), defs \in GraphCacheContents, t \in Mtimes :
          /\ defs # disk[k].definitions
          /\ disk' = [disk EXCEPT ![k].definitions = defs, ![k].mtime = t]
    /\ call' = NoCall
    /\ graph' = NoGraph
    /\ UNCHANGED <<vectorStore, retrieval, combination, resolution, index,
                   semanticCache, graphCache>>

\* The modification time of a file changes, its content does not
TouchFile ==
    /\ \E k \in 1..Len(disk), t \in Mtimes :
          /\ t # disk[k].mtime
          /\ disk' = [disk EXCEPT ![k].mtime = t]
    /\ call' = NoCall
    /\ graph' = NoGraph
    /\ UNCHANGED <<vectorStore, retrieval, combination, resolution, index,
                   semanticCache, graphCache>>

\* The permissions of a file change: it can, or can no longer, be read
ChmodFile ==
    /\ \E k \in 1..Len(disk) :
          disk' = [disk EXCEPT ![k].readable = ~@]
    /\ call' = NoCall
    /\ graph' = NoGraph
    /\ UNCHANGED <<vectorStore, retrieval, combination, resolution, index,
                   semanticCache, graphCache>>

\* A file is deleted
DeleteFile ==
    /\ \E k \in 1..Len(disk) :
          disk' = SubSeq(disk, 1, k - 1) \o SubSeq(disk, k + 1, Len(disk))
    /\ call' = NoCall
    /\ graph' = NoGraph
    /\ UNCHANGED <<vectorStore, retrieval, combination, resolution, index,
                   semanticCache, graphCache>>

\* A file that the project does not have is created, at its place in the
\* scan order (main.ts before utils.ts)
CreateFile ==
    /\ \E path \in {MainTs, UtilsTs}, defs \in GraphCacheContents, t \in Mtimes :
          /\ ~DiskHas(disk, path)
          /\ disk' = IF path = MainTs
                     THEN <<[SourceFile(path, defs, <<>>) EXCEPT !.mtime = t]>> \o disk
                     ELSE disk \o <<[SourceFile(path, defs, <<>>) EXCEPT !.mtime = t]>>
    /\ call' = NoCall
    /\ graph' = NoGraph
    /\ UNCHANGED <<vectorStore, retrieval, combination, resolution, index,
                   semanticCache, graphCache>>

\* The cache file is damaged: it is no longer JSON, and nothing can be read
\* from it
GarbleCache ==
    /\ graphCache.present /\ graphCache.parses
    /\ graphCache' = [NoGraphCache EXCEPT !.present = TRUE]
    /\ call' = NoCall
    /\ graph' = NoGraph
    /\ UNCHANGED <<vectorStore, retrieval, combination, resolution, disk, index,
                   semanticCache>>

\* The cache file is one that another release wrote: it carries that
\* release's version
ForeignCache ==
    /\ graphCache.present /\ graphCache.parses
    /\ graphCache.version = GRAPH_VERSION
    /\ graphCache' = [graphCache EXCEPT !.version = OTHER_VERSION]
    /\ call' = NoCall
    /\ graph' = NoGraph
    /\ UNCHANGED <<vectorStore, retrieval, combination, resolution, disk, index,
                   semanticCache>>

\* clearCache: the cache file is unlinked
ClearCache ==
    /\ graphCache.present
    /\ graphCache' = NoGraphCache
    /\ call' = NoCall
    /\ graph' = NoGraph
    /\ UNCHANGED <<vectorStore, retrieval, combination, resolution, disk, index,
                   semanticCache>>

\* A call of loadOrBuildGraph for the project
LoadOrBuildGraph ==
    /\ \E forceRebuild \in BOOLEAN :
          LET r == loadOrBuildGraph(disk, graphCache, forceRebuild)
          IN  /\ call' = [r EXCEPT !.cache = graphCache]
              /\ graph' = r.graph
              /\ graphCache' = r.cache
    /\ UNCHANGED <<vectorStore, retrieval, combination, resolution, disk, index,
                   semanticCache>>

NextGraphCache ==
    \/ EditFile \/ TouchFile \/ ChmodFile \/ DeleteFile \/ CreateFile
    \/ GarbleCache \/ ForeignCache \/ ClearCache
    \/ LoadOrBuildGraph

SpecGraphCache == InitGraphCache /\ [][NextGraphCache]_vars

----------------------------------------------------------------------------
(* Properties of the graph and its cache, checked under SpecGraphCache *)

\* The graph that loadOrBuildGraph read from the cache file in the last call
CachedGraphOfCall == loadGraphFromCache(call.cache).value

\* The project as it was when the file at path had other content
ProjectBeforeEdit(path, defs, t) ==
    [k \in 1..Len(disk) |->
        IF disk[k].path = path
        THEN [disk[k] EXCEPT !.definitions = defs, !.mtime = t]
        ELSE disk[k]]

\* g is the graph built from the project as it was before the content of
\* the one file at path was modified
BuiltBeforeEditOf(g, path) ==
    \E defs \in GraphCacheContents, t \in Mtimes :
        LET before == buildDependencyGraph(ProjectBeforeEdit(path, defs, t))
        IN  /\ defs # DiskGet(disk, path).definitions
            /\ g.files = before.files
            /\ g.symbols = before.symbols
            /\ g.stats = before.stats

\* The set of the elements of an array
Elements(arr) == {arr[i] : i \in 1..Len(arr)}

\* The definition sites of a name, in the order of its list
DefinitionSites(symbols, name) ==
    [k \in 1..Len(SymbolsGet(symbols, name)) |->
        SymbolsGet(symbols, name)[k].definedIn]

\* Two graphs have the same files map and the same stats
SameFilesAndStats(a, b) ==
    /\ Elements(a.files) = Elements(b.files)
    /\ a.stats = b.stats

\* Two symbol indexes have the same names, and under each name the same
\* definitions with the same usedIn sets
SameSymbolSets(a, b) ==
    /\ {a[i].id : i \in 1..Len(a)} = {b[i].id : i \in 1..Len(b)}
    /\ \A i \in 1..Len(a) :
          {[m EXCEPT !.usedIn = Elements(@)] : m \in Elements(a[i].entries)}
          = {[m EXCEPT !.usedIn = Elements(@)] :
                m \in Elements(SymbolsGet(b, a[i].id))}

\* The last call found exactly one file changed, a file whose content was
\* modified after the cached graph was built from the project, and ran
\* updateDependencyGraph(cachedGraph, [that path])
UpdatedAfterOneEdit ==
    /\ call.op = "loadOrBuildGraph"
    /\ call.updated
    /\ Len(call.changedFiles) = 1
    /\ CanRead(disk, call.changedFiles[1])
    /\ BuiltBeforeEditOf(CachedGraphOfCall, call.changedFiles[1])

\* C11: for a graph built from a project, after one file's content is
\* modified, updateDependencyGraph(graph, [that path]) yields a graph whose
\* files map, symbols index (the per-name lists of definition sites and
\* their usedIn sets) and stats equal those of a full buildDependencyGraph
\* of the modified project.
C11_UpdateEqualsFullBuild ==
    UpdatedAfterOneEdit =>
        LET full == buildDependencyGraph(disk)
        IN  /\ SameFilesAndStats(graph, full)
            /\ SameSymbolSets(graph.symbols, full.symbols)
            /\ \A i \in 1..Len(full.symbols) :
                  DefinitionSites(graph.symbols, full.symbols[i].id)
                  = DefinitionSites(full.symbols, full.symbols[i].id)

\* The part of C11 that holds: the same files, stats, names, definitions and
\* usedIn sets, the order of the definition sites of a name aside
C11_UpdateEqualsFullBuildUnordered ==
    UpdatedAfterOneEdit =>
        LET full == buildDependencyGraph(disk)
        IN  /\ SameFilesAndStats(graph, full)
            /\ SameSymbolSets(graph.symbols, full.symbols)

\* The number of definitions in the first i files of a files Map
RECURSIVE TotalDefinitions(_, _)
TotalDefinitions(files, i) ==
    IF i = 0 THEN 0
    ELSE TotalDefinitions(files, i - 1) + Len(files[i].definitions)

\* The number of entries under the first i names of a symbols index
RECURSIVE TotalEntries(_, _)
TotalEntries(symbols, i) ==
    IF i = 0 THEN 0 ELSE TotalEntries(symbols, i - 1) + Len(symbols[i].entries)

\* C12: in every graph returned by buildDependencyGraph,
\* updateDependencyGraph or loadOrBuildGraph the symbols index is exactly the
\* grouping by name of the definitions of the files in graph.files: every
\* definition of every file has exactly one entry under its name with
\* definedIn equal to that file, every entry is the entry of such a
\* definition, and no entry has a definedIn that is not a key of graph.files.
C12_SymbolsGroupDefinitionsOfFiles ==
    graph.built =>
        /\ \A i \in 1..Len(graph.files) :
            \A k \in 1..Len(graph.files[i].definitions) :
              LET def == graph.files[i].definitions[k]
                  entries == SymbolsGet(graph.symbols, def.name)
              IN  Cardinality({m \in 1..Len(entries) :
                                  /\ entries[m].definedIn = graph.files[i].id
                                  /\ entries[m].definition = def}) = 1
        /\ \A i \in 1..Len(graph.symbols) :
            \A m \in 1..Len(graph.symbols[i].entries) :
              /\ graph.symbols[i].entries[m].name = graph.symbols[i].id
              /\ MapHas(graph.files, graph.symbols[i].entries[m].definedIn)
        /\ \A i \in 1..Len(graph.symbols) : Len(graph.symbols[i].entries) > 0
        /\ TotalEntries(graph.symbols, Len(graph.symbols))
              = TotalDefinitions(graph.files, Len(graph.files))

\* A graph returned after an update for a changed file that was deleted from
\* disk and that had a definition, while another file still has one
C12_Witness ==
    /\ call.op = "loadOrBuildGraph"
    /\ call.updated
    /\ \E i \in 1..Len(call.changedFiles) :
          /\ ~DiskHas(disk, call.changedFiles[i])
          /\ FilesGet(CachedGraphOfCall.files, call.changedFiles[i]).definitions # <<>>
    /\ Len(graph.symbols) > 0

\* C13: loadOrBuildGraph without forceRebuild takes exactly one of three
\* paths.  On a cache hit with no changed file it returns the cached graph
\* with fromCache true and writes nothing to the cache; on a cache hit with
\* changed files it runs updateDependencyGraph on exactly those files, saves
\* the result and returns it with fromCache false; on a cache miss it runs a
\* full build and saves it.  In the two latter paths the cache file holds the
\* returned graph when the call returns.
C13_OneOfThreePaths ==
    (call.op = "loadOrBuildGraph" /\ ~call.forceRebuild) =>
        LET cached == loadGraphFromCache(call.cache)
            changed == detectChangedFiles(cached.value, disk)
        IN  /\ (cached.given /\ changed = <<>>) =>
                  /\ graph = cached.value
                  /\ call.fromCache
                  /\ graphCache = call.cache
                  /\ ~call.updated /\ ~call.built /\ ~call.saved
            /\ (cached.given /\ changed # <<>>) =>
                  /\ call.updated /\ ~call.built
                  /\ call.changedFiles = changed
                  /\ graph = updateDependencyGraph(cached.value, changed, disk)
                  /\ ~call.fromCache
                  /\ call.saved
                  /\ loadGraphFromCache(graphCache) = Some(graph)
            /\ ~cached.given =>
                  /\ call.built /\ ~call.updated
                  /\ graph = buildDependencyGraph(disk)
                  /\ ~call.fromCache
                  /\ call.saved
                  /\ loadGraphFromCache(graphCache) = Some(graph)

\* A call without forceRebuild that found a cached graph and changed files,
\* and left another cache file than it found
C13_Witness ==
    /\ call.op = "loadOrBuildGraph"
    /\ ~call.forceRebuild
    /\ loadGraphFromCache(call.cache).given
    /\ detectChangedFiles(CachedGraphOfCall, disk) # <<>>
    /\ graphCache # call.cache
    /\ Len(graph.files) > 0

\* C14: detectChangedFiles returns exactly the files known to the graph for
\* which at least one of these holds: the file can no longer be stat'ed or
\* read, its current modification time is newer than the stored
\* lastModified, or the hash of its current content differs from the stored
\* hash; a file whose modification time and content hash both match the
\* stored values is never reported.
C14_ChangedFilesExactly ==
    (call.op = "loadOrBuildGraph" /\ call.cacheHit) =>
        LET known == CachedGraphOfCall.files
        IN  /\ Elements(call.changedFiles) =
                  {known[i].id : i \in
                     {j \in 1..Len(known) :
                        \/ ~DiskHas(disk, known[j].id)
                        \/ ~DiskGet(disk, known[j].id).readable
                        \/ DiskGet(disk, known[j].id).mtime > known[j].lastModified
                        \/ ContentHash(DiskGet(disk, known[j].id)) # known[j].hash}}
            /\ \A j \in 1..Len(known) :
                  (/\ CanRead(disk, known[j].id)
                   /\ DiskGet(disk, known[j].id).mtime = known[j].lastModified
                   /\ ContentHash(DiskGet(disk, known[j].id)) = known[j].hash)
                  => known[j].id \notin Elements(call.changedFiles)

\* A call that found one file changed by its content alone (no newer
\* modification time) and another file, unchanged, that it did not report
C14_Witness ==
    /\ call.op = "loadOrBuildGraph"
    /\ call.cacheHit
    /\ \E i, j \in 1..Len(CachedGraphOfCall.files) :
          LET known == CachedGraphOfCall.files
          IN  /\ CanRead(disk, known[i].id)
              /\ DiskGet(disk, known[i].id).mtime <= known[i].lastModified
              /\ ContentHash(DiskGet(disk, known[i].id)) # known[i].hash
              /\ known[i].id \in Elements(call.changedFiles)
              /\ CanRead(disk, known[j].id)
              /\ DiskGet(disk, known[j].id).mtime = known[j].lastModified
              /\ ContentHash(DiskGet(disk, known[j].id)) = known[j].hash
              /\ known[j].id \notin Elements(call.changedFiles)

\* The full rebuild that a call makes when it has no cache: the graph of
\* the project as it is, built, returned and saved
FullRebuildOfCall ==
    /\ call.built
    /\ ~call.fromCache
    /\ graph = buildDependencyGraph(disk)
    /\ graphCache = saveGraphToCache(graph)

\* C15 (graph cache): a graph cache file that is not parseable JSON, or that
\* carries a version different from the current one, is never returned as
\* the result of loadOrBuildGraph: it is treated as no cache, and a full
\* rebuild is performed and saved.
C15_DamagedCacheIsNoCache ==
    (/\ call.op = "loadOrBuildGraph"
     /\ call.cache.present
     /\ (~call.cache.parses \/ call.cache.version # GRAPH_VERSION))
    => FullRebuildOfCall

\* The part of C15 that holds for the graph cache: a cache file that is not
\* parseable JSON is treated as no cache
C15_UnparseableCacheIsNoCache ==
    (/\ call.op = "loadOrBuildGraph"
     /\ call.cache.present
     /\ ~call.cache.parses)
    => FullRebuildOfCall

----------------------------------------------------------------------------
(* SpecSemanticIndex: between requests utils.ts is rewritten and the
   semantic index cache file is damaged or removed; a request loads the
   index through loadOrBuildSemanticIndex with the graph of the project as it
   is, and may then patch it through updateSemanticIndex.  The index in
   memory is gone once the project or the cache file changes. *)

\* What utils.ts may hold: nothing, fmt in one of two texts, or two
\* definitions named fmt (same-named methods of two classes)
IndexContents ==
    {<<>>,
     <<DefinitionWithBody(SymFmt, TRUE, "v1")>>,
     <<DefinitionWithBody(SymFmt, TRUE, "v2")>>,
     <<DefinitionWithBody(SymFmt, TRUE, "v1"), DefinitionWithBody(SymFmt, TRUE, "v2")>>}

\* The index as updateSemanticIndex takes it: the Maps and the vector store
IndexInMemory ==
    [loaded |-> index.loaded, units |-> index.units,
     embeddings |-> index.embeddings, vectorStore |-> vectorStore,
     version |-> index.version]

\* What the embedding service may answer for a unit
IndexOutcomes == {Vec60, NoEmbedding}

InitSemanticIndex ==
    /\ disk = <<SourceFile(MainTs, <<DefinitionWithBody(SymPut, FALSE, "v1")>>, <<>>),
                SourceFile(UtilsTs, <<DefinitionWithBody(SymFmt, TRUE, "v1")>>, <<>>)>>
    /\ vectorStore = <<>>
    /\ retrieval = NoRetrieval
    /\ combination = NoCombination
    /\ graph = NoGraph
    /\ resolution = NoResolution
    /\ index = NoIndex
    /\ semanticCache = NoCache
    /\ graphCache = NoGraphCache
    /\ call = NoCall

\* utils.ts is rewritten
RewriteUtils ==
    /\ \E defs \in IndexContents :
          /\ defs # disk[2].definitions
          /\ disk' = [disk EXCEPT ![2].definitions = defs]
    /\ index' = NoIndex
    /\ vectorStore' = <<>>
    /\ graph' = NoGraph
    /\ call' = NoCall
    /\ UNCHANGED <<retrieval, combination, resolution, semanticCache, graphCache>>

\* The cache file is damaged: it is no longer JSON, and nothing can be read
\* from it
GarbleIndexCache ==
    /\ semanticCache.present /\ semanticCache.parses
    /\ semanticCache' = [NoCache EXCEPT !.present = TRUE]
    /\ index' = NoIndex
    /\ vectorStore' = <<>>
    /\ graph' = NoGraph
    /\ call' = NoCall
    /\ UNCHANGED <<retrieval, combination, resolution, disk, graphCache>>

\* The cache file is one that another release wrote
ForeignIndexCache ==
    /\ semanticCache.present /\ semanticCache.parses
    /\ semanticCache.version = INDEX_VERSION
    /\ semanticCache' = [semanticCache EXCEPT !.version = OTHER_VERSION]
    /\ index' = NoIndex
    /\ vectorStore' = <<>>
    /\ graph' = NoGraph
    /\ call' = NoCall
    /\ UNCHANGED <<retrieval, combination, resolution, disk, graphCache>>

\* clearSemanticCache
ClearSemanticCache ==
    /\ semanticCache.present
    /\ semanticCache' = NoCache
    /\ index' = NoIndex
    /\ vectorStore' = <<>>
    /\ graph' = NoGraph
    /\ call' = NoCall
    /\ UNCHANGED <<retrieval, combination, resolution, disk, graphCache>>

\* A call of loadOrBuildSemanticIndex with the graph of the project as it is
LoadOrBuildSemanticIndex ==
    /\ \E forceRebuild \in BOOLEAN :
          LET g == buildDependencyGraph(disk)
              n == IF ~forceRebuild /\ CacheUsable(semanticCache) THEN 0
                   ELSE Len(ValidUnits(g, disk))
          IN  \E outcomes \in [1..n -> IndexOutcomes], order \in Permutations(1..n) :
                LET r == loadOrBuildSemanticIndex(g, disk, semanticCache,
                                                  forceRebuild, outcomes, order)
                IN  /\ graph' = g
                    /\ index' = [k \in DOMAIN NoIndex |-> r.index[k]]
                    /\ vectorStore' = r.index.vectorStore
                    /\ semanticCache' = r.cache
                    /\ call' = [op |-> "loadOrBuildSemanticIndex",
                                forceRebuild |-> forceRebuild,
                                fromCache |-> r.fromCache,
                                cache |-> semanticCache]
    /\ UNCHANGED <<retrieval, combination, resolution, disk, graphCache>>

\* A call of updateSemanticIndex on the index in memory, for some files of
\* the project and the graph of the project as it is
UpdateSemanticIndex ==
    /\ index.loaded
    /\ \E changedFiles \in {<<MainTs>>, <<UtilsTs>>, <<MainTs, UtilsTs>>} :
          LET g == buildDependencyGraph(disk)
              n == Len(UnitsToProcess(
                          EnrichedNewUnits(changedFiles, g, disk),
                          ExistingEmbeddingResults(
                              RemoveChanged(IndexInMemory, changedFiles))))
          IN  \E outcomes \in [1..n -> IndexOutcomes], order \in Permutations(1..n) :
                LET r == updateSemanticIndex(IndexInMemory, changedFiles, g, disk,
                                             outcomes, order)
                IN  /\ graph' = g
                    /\ index' = [k \in DOMAIN NoIndex |-> r[k]]
                    /\ vectorStore' = r.vectorStore
                    /\ call' = [op |-> "updateSemanticIndex",
                                changedFiles |-> changedFiles,
                                requested |-> r.requested]
    /\ UNCHANGED <<retrieval, combination, resolution, disk, semanticCache,
                   graphCache>>

NextSemanticIndex ==
    \/ RewriteUtils
    \/ GarbleIndexCache \/ ForeignIndexCache \/ ClearSemanticCache
    \/ LoadOrBuildSemanticIndex \/ UpdateSemanticIndex

SpecSemanticIndex == InitSemanticIndex /\ [][NextSemanticIndex]_vars

----------------------------------------------------------------------------
(* Properties of the semantic index, checked under SpecSemanticIndex *)

\* The ids of the entries of a Map or of the vector store
Ids(m) == {m[k].id : k \in 1..Len(m)}

\* C16: after any sequence of buildSemanticIndex, updateSemanticIndex and
\* cache save/load of a semantic index, the set of ids in index.embeddings
\* equals the set of ids stored in index.vectorStore, each such id has
\* exactly one vector-store entry holding the same vector, and each such id
\* is a key of index.units.
C16_EmbeddingsAndVectorStoreInLockStep ==
    index.loaded =>
        /\ Ids(index.embeddings) = Ids(vectorStore)
        /\ \A e \in 1..Len(index.embeddings) :
              /\ Cardinality({v \in 1..Len(vectorStore) :
                                  vectorStore[v].id = index.embeddings[e].id}) = 1
              /\ \A v \in 1..Len(vectorStore) :
                    vectorStore[v].id = index.embeddings[e].id =>
                        vectorStore[v].embedding = index.embeddings[e].embedding
              /\ index.embeddings[e].id \in Ids(index.units)

\* An index patched by updateSemanticIndex, with a request issued, that holds
\* embeddings of both files and a unit whose embedding failed
C16_Witness ==
    /\ call.op = "updateSemanticIndex"
    /\ Len(call.requested) > 0
    /\ Len(index.embeddings) > 0
    /\ Len(vectorStore) > 0
    /\ Ids(index.units) # Ids(index.embeddings)

\* The cache file before the call was there but unparseable or of another
\* version
DamagedIndexCacheOfCall ==
    /\ call.op = "loadOrBuildSemanticIndex"
    /\ ~call.forceRebuild
    /\ call.cache.present
    /\ (~call.cache.parses \/ call.cache.version # INDEX_VERSION)

\* C15 (semantic index): after loadOrBuildSemanticIndex found an unparseable
\* or other-version cache file, the index is not from the cache, holds the
\* units of the current project, and the cache file holds that index under
\* the current version.
C15_DamagedIndexCacheIsNoCache ==
    DamagedIndexCacheOfCall =>
        /\ ~call.fromCache
        /\ index.loaded
        /\ index.units = UnitsMap(ValidUnits(graph, disk),
                                   Len(ValidUnits(graph, disk)))
        /\ CacheUsable(semanticCache)
        /\ semanticCache.units = index.units
        /\ semanticCache.embeddings = index.embeddings

\* Both kinds of damaged semantic cache were met by a call
C15_IndexWitness ==
    /\ DamagedIndexCacheOfCall
    /\ call.cache.parses
    /\ Len(index.embeddings) > 0

\* The entries of a sequence that belong to files outside changedFiles
OfOtherFiles(entries, fileOf(_), changedFiles) ==
    SelectSeq(entries, LAMBDA e : ~ArrIncludes(changedFiles, fileOf(e)))

\* The file of a unit, of an embedding result and of a vector-store entry
FileOfUnit(u) == u.file
FileOfEmbedding(e) == e.id[1]
FileOfVector(v) == v.metadata.unit.file

\* What a step of updateSemanticIndex does to the index
UpdateFrame ==
    LET changedFiles == call'.changedFiles
        newUnits == EnrichedNewUnits(changedFiles, graph', disk')
    IN  \* units of other files stay as they were, in all three collections
        /\ OfOtherFiles(index'.units, FileOfUnit, changedFiles)
              = OfOtherFiles(index.units, FileOfUnit, changedFiles)
        /\ OfOtherFiles(index'.embeddings, FileOfEmbedding, changedFiles)
              = OfOtherFiles(index.embeddings, FileOfEmbedding, changedFiles)
        /\ OfOtherFiles(vectorStore', FileOfVector, changedFiles)
              = OfOtherFiles(vectorStore, FileOfVector, changedFiles)
        \* what the index holds of the changed files was extracted from them
        \* in the given graph: the old units of those files are gone
        /\ \A k \in 1..Len(index'.units) :
              ArrIncludes(changedFiles, index'.units[k].file) =>
                  \E n \in 1..Len(newUnits) : newUnits[n] = index'.units[k]
        /\ \A k \in 1..Len(index'.embeddings) :
              ArrIncludes(changedFiles, FileOfEmbedding(index'.embeddings[k])) =>
                  \E n \in 1..Len(newUnits) :
                      newUnits[n].id = index'.embeddings[k].id
        /\ \A k \in 1..Len(vectorStore') :
              ArrIncludes(changedFiles, FileOfVector(vectorStore'[k])) =>
                  \E n \in 1..Len(newUnits) :
                      newUnits[n] = vectorStore'[k].metadata.unit
        \* embeddings are requested for units of the changed files only
        /\ \A k \in 1..Len(call'.requested) :
              ArrIncludes(changedFiles, call'.requested[k].file)

\* C17: updateSemanticIndex(index, changedFiles, graph) removes from
\* index.units, index.embeddings and index.vectorStore every unit whose file
\* is in changedFiles, adds only units extracted from those files in the
\* given graph, leaves the units, embeddings and vector-store entries of all
\* other files unchanged, and issues no embedding request for them.
C17_UpdateTouchesOnlyChangedFiles ==
    [][call'.op = "updateSemanticIndex" => UpdateFrame]_vars

\* An update for utils.ts alone that issued a request, on an index that
\* holds an embedded unit of main.ts
C17_Witness ==
    /\ call.op = "updateSemanticIndex"
    /\ call.changedFiles = <<UtilsTs>>
    /\ Len(call.requested) > 0
    /\ \E k \in 1..Len(index.embeddings) :
          FileOfEmbedding(index.embeddings[k]) = MainTs
    /\ \E k \in 1..Len(index.embeddings) :
          FileOfEmbedding(index.embeddings[k]) = UtilsTs

\* The unit is what the source file holds now: a definition of that name is
\* in the file on disk, and the unit's code and hash are those of its body
UnitMatchesSource(u, sources) ==
    /\ DiskHas(sources, u.file)
    /\ \E d \in 1..Len(DiskGet(sources, u.file).definitions) :
          LET def == DiskGet(sources, u.file).definitions[d]
          IN  /\ def.name = u.symbol
              /\ u.code = def.body
              /\ u.hash = Md5(def.body)

\* C18: when source files changed after the semantic index was cached, the
\* index returned by the next loadOrBuildSemanticIndex holds no unit for a
\* definition that no longer exists, and the code and content hash of each
\* unit match the current source.
C18_LoadedIndexReflectsSource ==
    (call.op = "loadOrBuildSemanticIndex") =>
        \A k \in 1..Len(index.units) : UnitMatchesSource(index.units[k], disk)

\* The same for the calls that build the index anew
C18_BuiltIndexReflectsSource ==
    (call.op = "loadOrBuildSemanticIndex" /\ ~call.fromCache) =>
        \A k \in 1..Len(index.units) : UnitMatchesSource(index.units[k], disk)

----------------------------------------------------------------------------
(* SpecBatch: one call of batchGenerateEmbeddings, step by step.  The call
   record holds the loop index i, the requests in flight and the results Map;
   a request settles at any time after it was issued, with an embedding or
   with an error. *)

BATCH_SIZE == 10

\* A unit after enrichUnitsWithCode
EnrichedUnit(file, symbol, code) ==
    [CodeUnit(file, symbol, TRUE) EXCEPT !.code = code, !.hash = Md5(code)]

\* The units a call may be handed: fmt of utils.ts in two texts (one id, as
\* for same-named methods of two classes) and put of main.ts
BatchUnitPool ==
    {EnrichedUnit(UtilsTs, SymFmt, "v1"), EnrichedUnit(UtilsTs, SymFmt, "v2"),
     EnrichedUnit(MainTs, SymPut, "v1")}

BatchUnits == UNION {[1..n -> BatchUnitPool] : n \in 0..MaxBatchUnits}

\* options.batchSize, and the default when it is absent
BatchSizes == {1, 2, BATCH_SIZE}

\* The call at its start: an empty results Map, i = 0
BatchCall(units, batchSize) ==
    [op |-> "batchGenerateEmbeddings", units |-> units, batchSize |-> batchSize,
     i |-> 0, pc |-> "loop", inFlight |-> {}, requested |-> {},
     succeeded |-> {}, failed |-> {}, results |-> <<>>]

InitBatch ==
    /\ \E units \in BatchUnits, batchSize \in BatchSizes :
          call = BatchCall(units, batchSize)
    /\ vectorStore = <<>>
    /\ retrieval = NoRetrieval
    /\ combination = NoCombination
    /\ graph = NoGraph
    /\ resolution = NoResolution
    /\ disk = NoDisk
    /\ index = NoIndex
    /\ semanticCache = NoCache
    /\ graphCache = NoGraphCache

\* The batch as it would be if the slice had no upper end
BatchOfRest(c) ==
    {k \in 1..Len(c.units) : c.i < k}

\* The indices of units.slice(i, Math.min(i + batchSize, units.length))
BatchOf(c) ==
    {k \in 1..Len(c.units) : c.i < k /\ k <= c.i + c.batchSize}

\* batch.map(async unit => ...): every request of the batch is issued
IssuedBatch(c) ==
    [c EXCEPT !.pc = "awaitAll", !.inFlight = BatchOf(c),
              !.requested = @ \union BatchOf(c)]

\* The request of unit k answered: results.set(unit.id, result)
SucceededRequest(c, k, embedding) ==
    [c EXCEPT !.inFlight = @ \ {k}, !.succeeded = @ \union {k},
              !.results = MapSet(@, EmbeddingResult(c.units[k], embedding))]

\* A failed request as it would be without the catch: Promise.all rejects
\* and the call ends
FailedRequestRejectingAll(c, k) ==
    [c EXCEPT !.inFlight = {}, !.failed = @ \union {k}, !.pc = "returned"]

\* The request of unit k threw: the catch logs and gives null
FailedRequest(c, k) ==
    [c EXCEPT !.inFlight = @ \ {k}, !.failed = @ \union {k}]

\* Promise.all resolved: sleep if units remain after this batch, else go on
SettledBatch(c) ==
    IF c.i + c.batchSize < Len(c.units)
    THEN [c EXCEPT !.pc = "sleep"]
    ELSE [c EXCEPT !.pc = "loop", !.i = @ + c.batchSize]

UnchangedOutsideCall ==
    UNCHANGED <<vectorStore, retrieval, combination, graph, resolution, disk,
                index, semanticCache, graphCache>>

IssueBatch ==
    /\ call.pc = "loop"
    /\ call.i < Len(call.units)
    /\ call' = IssuedBatch(call)
    /\ UnchangedOutsideCall

RequestSucceeds ==
    /\ call.pc = "awaitAll"
    /\ \E k \in call.inFlight, embedding \in {Vec28, Vec60} :
          call' = SucceededRequest(call, k, embedding)
    /\ UnchangedOutsideCall

RequestFails ==
    /\ call.pc = "awaitAll"
    /\ \E k \in call.inFlight : call' = FailedRequest(call, k)
    /\ UnchangedOutsideCall

BatchSettles ==
    /\ call.pc = "awaitAll"
    /\ call.inFlight = {}
    /\ call' = SettledBatch(call)
    /\ UnchangedOutsideCall

SleepEnds ==
    /\ call.pc = "sleep"
    /\ call' = [call EXCEPT !.pc = "loop", !.i = @ + call.batchSize]
    /\ UnchangedOutsideCall

ReturnResults ==
    /\ call.pc = "loop"
    /\ call.i >= Len(call.units)
    /\ call' = [call EXCEPT !.pc = "returned"]
    /\ UnchangedOutsideCall

NextBatch ==
    \/ IssueBatch \/ RequestSucceeds \/ RequestFails
    \/ BatchSettles \/ SleepEnds \/ ReturnResults

SpecBatch == InitBatch /\ [][NextBatch]_vars

\* C19: the Map batchGenerateEmbeddings returns has as keys exactly the ids
\* of the units whose request succeeded, each entry being the result of such
\* a request; a failed request does not end the call and does not keep any
\* other unit, of its batch or of a later one, from being requested, and
\* sets nothing in the Map.
C19_PartialSuccess ==
    /\ call.pc = "returned" =>
          /\ call.requested = 1..Len(call.units)
          /\ call.succeeded \union call.failed = 1..Len(call.units)
          /\ Ids(call.results) = {call.units[k].id : k \in call.succeeded}
          /\ \A e \in 1..Len(call.results) :
                \E k \in call.succeeded, embedding \in {Vec28, Vec60} :
                    call.results[e] = EmbeddingResult(call.units[k], embedding)
    /\ call.pc # "returned" => ENABLED NextBatch

\* A call that returned with a failure in its first batch, a success in the
\* same batch, and a later batch
C19_Witness ==
    /\ call.pc = "returned"
    /\ call.batchSize = 2
    /\ Len(call.units) = 3
    /\ 1 \in call.failed
    /\ 2 \in call.succeeded
    /\ Len(call.results) > 0

----------------------------------------------------------------------------
(* SpecIncremental: incrementalGenerateEmbeddings is called with some units
   and some existing embeddings, and then again with the same units and the
   Map it returned. *)

OTHER_MODEL == "embedding-001"

IncrementalUnits == UNION {[1..n -> BatchUnitPool] : n \in 0..MaxIncrementalUnits}

\* What the existing Map may hold for a unit: an embedding of the text "v1"
\* made with the current model or with another one
ExistingResults(unit) ==
    {[EmbeddingResult(unit, Vec28) EXCEPT !.model = m] :
         m \in {EMBEDDING_MODEL, OTHER_MODEL}}

\* The existing Maps: for fmt of utils.ts and put of main.ts, nothing or one
\* of those embeddings
ExistingEmbeddings ==
    LET fmt == ExistingResults(EnrichedUnit(UtilsTs, SymFmt, "v1"))
        put == ExistingResults(EnrichedUnit(MainTs, SymPut, "v1"))
    IN  {<<>>} \union {<<f>> : f \in fmt} \union {<<p>> : p \in put}
               \union {<<f, p>> : f \in fmt, p \in put}

InitIncremental ==
    /\ \E units \in IncrementalUnits, existing \in ExistingEmbeddings :
          call = [op |-> "incrementalGenerateEmbeddings", units |-> units,
                  calls |-> 0, existingEmbeddings |-> existing,
                  requested |-> <<>>, returned |-> existing,
                  earlierSucceeded |-> TRUE, lastSucceeded |-> TRUE]
    /\ vectorStore = <<>>
    /\ retrieval = NoRetrieval
    /\ combination = NoCombination
    /\ graph = NoGraph
    /\ resolution = NoResolution
    /\ disk = NoDisk
    /\ index = NoIndex
    /\ semanticCache = NoCache
    /\ graphCache = NoGraphCache

\* One call, handed the Map the call before it returned.  lastSucceeded
\* tells whether every request of this call succeeded, earlierSucceeded
\* whether every request of the calls before it did.
IncrementalGenerateEmbeddings ==
    /\ call.calls < MaxIncrementalCalls
    /\ LET n == Len(UnitsToProcess(call.units, call.returned))
       IN  \E outcomes \in [1..n -> IndexOutcomes], order \in Permutations(1..n) :
             LET r == incrementalGenerateEmbeddings(call.units, call.returned,
                                                    outcomes, order)
             IN  call' = [call EXCEPT
                            !.calls = @ + 1,
                            !.existingEmbeddings = call.returned,
                            !.requested = r.requested,
                            !.returned = r.embeddings,
                            !.earlierSucceeded = @ /\ call.lastSucceeded,
                            !.lastSucceeded =
                                \A k \in 1..n : outcomes[k] # NoEmbedding]
    /\ UnchangedOutsideCall

NextIncremental == IncrementalGenerateEmbeddings

SpecIncremental == InitIncremental /\ [][NextIncremental]_vars

\* The claim of C20 about the last call and the Map it was handed
IncrementalContract ==
    /\ \A k \in 1..Len(call.requested) :
          needsRegeneration(call.requested[k],
              EmbeddingsGet(call.existingEmbeddings, call.requested[k].id))
    /\ \A k \in 1..Len(call.units) :
          LET existing == EmbeddingsGet(call.existingEmbeddings, call.units[k].id)
          IN  ~needsRegeneration(call.units[k], existing) =>
                  EmbeddingsGet(call.returned, call.units[k].id) = existing
    /\ (call.calls >= 2 /\ call.earlierSucceeded) => call.requested = <<>>

\* C20: incrementalGenerateEmbeddings issues a request for a unit only if
\* needsRegeneration holds for it; every existing embedding of a unit that
\* does not need regeneration is unchanged in the returned Map; a second
\* call with the same units and the returned Map issues no request when all
\* earlier requests succeeded.
C20_IncrementalOnlyWhatChanged ==
    call.calls >= 1 => IncrementalContract

\* The ids of the units handed to the call are pairwise distinct
DistinctUnitIds ==
    \A j, k \in 1..Len(call.units) :
        call.units[j].id = call.units[k].id => j = k

\* The same for units with pairwise distinct ids
C20_IncrementalOnlyWhatChangedDistinctIds ==
    (call.calls >= 1 /\ DistinctUnitIds) => IncrementalContract

\* A second call on two units with distinct ids whose first call requested
\* one of them and succeeded
C20_DistinctIdsWitness ==
    /\ call.calls = 2
    /\ DistinctUnitIds
    /\ Len(call.units) = 2
    /\ call.earlierSucceeded
    /\ Len(call.existingEmbeddings) = 2
    /\ call.requested = <<>>

----------------------------------------------------------------------------
(* SpecBatchFair: the steps of batchGenerateEmbeddings itself are taken when
   they can be (the event loop runs a continuation that is ready, the sleep
   timer fires); whether and when a request settles is up to the service. *)

SpecBatchFair ==
    /\ SpecBatch
    /\ WF_vars(IssueBatch) /\ WF_vars(BatchSettles)
    /\ WF_vars(SleepEnds) /\ WF_vars(ReturnResults)

\* The requests that were issued and have settled
SettledRequests == call.succeeded \union call.failed

\* At most batchSize requests are in flight, all of the current batch, and
\* every request of the batches before it has settled
BatchesInTurn ==
    /\ Cardinality(call.inFlight) <= call.batchSize
    /\ call.inFlight = call.requested \ SettledRequests
    /\ \A k \in call.inFlight : call.i < k /\ k <= call.i + call.batchSize
    /\ \A k \in call.requested : k <= call.i => k \in SettledRequests

\* C25: during batchGenerateEmbeddings at most batchSize requests are in
\* flight at any time, no request of batch k+1 is issued before every
\* request of batch k has settled, and once every request has settled the
\* call returns.
C25_BatchesSequentialAndBounded ==
    /\ []BatchesInTurn
    /\ (call.requested = 1..Len(call.units) /\ call.inFlight = {})
           ~> (call.pc = "returned")

\* The second batch in flight after the first one settled with a failure
C25_Witness ==
    /\ call.batchSize = 1
    /\ call.i = 1
    /\ call.inFlight = {2}
    /\ call.failed = {1}
    /\ Len(call.units) = 3

----------------------------------------------------------------------------
(* The score of a candidate, checked under SpecRetrieve *)

\* One string contains the other, compared in lower case
ContainOneAnother(a, b) ==
    \/ StrIncludes(toLowerCase(a), toLowerCase(b))
    \/ StrIncludes(toLowerCase(b), toLowerCase(a))

\* The score C26 states, in hundredths, for a candidate of the given
\* similarity
StatedScore(similarity, unit, query) ==
    LET exact == \E s \in 1..Len(query.symbols) : query.symbols[s] = unit.symbol
        partial == \E s \in 1..Len(query.symbols) :
                       ContainOneAnother(unit.symbol, query.symbols[s])
        sum == similarity + (IF exact THEN 20 ELSE 0) + (IF partial THEN 10 ELSE 0)
                          + (IF unit.isExported THEN 5 ELSE 0)
                          - (IF unit.file = query.currentFile THEN 10 ELSE 0)
    IN  IF sum > 100 THEN 100 ELSE sum

\* C26: the final score of every candidate of retrieveRelevantCode is
\* min(1.0, similarity + 0.2 for an exact symbol match + 0.1 (once) for a
\* case-insensitive containment either way + 0.05 if exported - 0.1 if in the
\* query's file); it never exceeds 1.0 and is not raised when it falls below
\* the similarity threshold.
C26_FinalScore ==
    retrieval.called =>
        /\ Len(retrieval.ranked) = Len(retrieval.vectorResults)
        /\ \A i \in 1..Len(retrieval.ranked) :
              /\ retrieval.ranked[i].score <= 100
              /\ \E j \in 1..Len(retrieval.vectorResults) :
                    LET v == retrieval.vectorResults[j]
                    IN  /\ v.metadata.unit = retrieval.ranked[i].unit
                        /\ retrieval.ranked[i].score =
                              StatedScore(v.similarity, v.metadata.unit,
                                          retrieval.query)

\* A call with one candidate whose sum passes 1.0 and one whose score falls
\* below its similarity and the threshold through the same-file penalty
C26_Witness ==
    /\ retrieval.called
    /\ \E i, j \in 1..Len(retrieval.vectorResults) :
          LET a == retrieval.vectorResults[i]
              b == retrieval.vectorResults[j]
          IN  /\ FinalScoreUncapped(a, retrieval.query) > 100
              /\ b.similarity = 60
              /\ \E k \in 1..Len(retrieval.ranked) :
                    /\ retrieval.ranked[k].unit = b.metadata.unit
                    /\ retrieval.ranked[k].score = 50

----------------------------------------------------------------------------
(* SpecStore: an InMemoryVectorStore is filled, entries are deleted, the store
   is cleared, and then it is searched once.  The call record keeps the ids
   deleted or cleared and not inserted again since. *)

VecOpposite == <<-25, 0, 0, 0>>

\* The units whose vectors are stored: a function of main.ts, a class of
\* utils.ts and a function of main.py
StoreUnits ==
    {CodeUnit(MainTs, SymFmt, TRUE),
     [CodeUnit(UtilsTs, SymFmt, TRUE) EXCEPT !.type = "class"],
     CodeUnit(MainPy, SymGet, FALSE)}

StoreVectors == {VecOpposite, Vec60, Vec96}

\* options.filters of a search
StoreFilters ==
    {NoFilters,
     [NoFilters EXCEPT !.file = Some(UtilsTs)],
     [NoFilters EXCEPT !.language = "typescript"],
     [NoFilters EXCEPT !.types = <<"class">>],
     [NoFilters EXCEPT !.excludeFiles = <<MainTs>>],
     [NoFilters EXCEPT !.language = "typescript", !.types = <<"function", "class">>,
                       !.excludeFiles = <<UtilsTs, MainPy>>]}

\* SearchOptions
StoreSearchOptions ==
    [topK : (1..MaxStoreEntries) \union {SEARCH_TOP_K},
     filters : StoreFilters,
     minSimilarity : {None(0), Some(MEDIUM_CONFIDENCE), Some(96)}]

\* options.minSimilarity || 0
MinSimilarityOrZero(options) ==
    IF options.minSimilarity.given /\ options.minSimilarity.value # 0
    THEN options.minSimilarity.value ELSE 0

\* The store between calls
StoreCall(op, deleted) ==
    [op |-> op, deleted |-> deleted, searched |-> FALSE,
     options |-> [topK |-> 0, filters |-> NoFilters, minSimilarity |-> None(0)],
     results |-> <<>>]

InitStore ==
    /\ vectorStore = <<>>
    /\ call = StoreCall("new", {})
    /\ retrieval = NoRetrieval
    /\ combination = NoCombination
    /\ graph = NoGraph
    /\ resolution = NoResolution
    /\ disk = NoDisk
    /\ index = NoIndex
    /\ semanticCache = NoCache
    /\ graphCache = NoGraphCache

UnchangedOutsideStore ==
    UNCHANGED <<retrieval, combination, graph, resolution, disk, index,
                semanticCache, graphCache>>

InsertVector ==
    /\ ~call.searched
    /\ \E unit \in StoreUnits, embedding \in StoreVectors :
          /\ MapHas(vectorStore, unit.id) \/ Len(vectorStore) < MaxStoreEntries
          /\ vectorStore' = StoreInsert(vectorStore, unit, embedding)
          /\ call' = StoreCall("insert", call.deleted \ {unit.id})
    /\ UnchangedOutsideStore

DeleteVector ==
    /\ ~call.searched
    /\ \E unit \in StoreUnits :
          /\ vectorStore' = StoreDelete(vectorStore, unit.id)
          /\ call' = StoreCall("delete", call.deleted \union {unit.id})
    /\ UnchangedOutsideStore

ClearVectors ==
    /\ ~call.searched
    /\ vectorStore' = <<>>
    /\ call' = StoreCall("clear",
                   call.deleted \union {vectorStore[k].id : k \in 1..Len(vectorStore)})
    /\ UnchangedOutsideStore

SearchVectors ==
    /\ ~call.searched
    /\ \E options \in StoreSearchOptions :
          call' = [op |-> "search", deleted |-> call.deleted, searched |-> TRUE,
                   options |-> options,
                   results |-> StoreSearch(vectorStore, VecQuery, options.topK,
                                           options.filters,
                                           MinSimilarityOrZero(options))]
    /\ UNCHANGED vectorStore
    /\ UnchangedOutsideStore

NextStore == InsertVector \/ DeleteVector \/ ClearVectors \/ SearchVectors

SpecStore == InitStore /\ [][NextStore]_vars

\* The unit satisfies every filter that is given
SatisfiesFilters(unit, filters) ==
    /\ filters.file.given => unit.file = filters.file.value
    /\ filters.language # "" => unit.language = filters.language
    /\ filters.types # <<>> =>
          \E t \in 1..Len(filters.types) : filters.types[t] = unit.type
    /\ \A x \in 1..Len(filters.excludeFiles) : filters.excludeFiles[x] # unit.file

\* The similarity is at least minSimilarity, when one is given
AtLeastMinSimilarity(similarity, options) ==
    options.minSimilarity.given => similarity >= options.minSimilarity.value

\* C21: InMemoryVectorStore.search returns only entries of the store that
\* satisfy every given filter and whose similarity to the query is at least
\* minSimilarity, ordered by non-increasing similarity and at most topK in
\* number; no entry that passes the filters and the threshold but is left
\* out has a higher similarity than a returned one; an id deleted or cleared
\* before the search is never returned.
C21_SearchFiltersRanksAndTruncates ==
    call.op = "search" =>
        LET results == call.results
            options == call.options
            returned == {results[i].id : i \in 1..Len(results)}
        IN  /\ Len(results) <= options.topK
            /\ Cardinality(returned) = Len(results)
            /\ \A i \in 1..Len(results) :
                  /\ \E k \in 1..Len(vectorStore) :
                        /\ vectorStore[k].id = results[i].id
                        /\ vectorStore[k].metadata = results[i].metadata
                        /\ results[i].similarity =
                              cosineSimilarity(VecQuery, vectorStore[k].embedding)
                  /\ SatisfiesFilters(results[i].metadata.unit, options.filters)
                  /\ AtLeastMinSimilarity(results[i].similarity, options)
                  /\ results[i].id \notin call.deleted
                  /\ i > 1 => results[i - 1].similarity >= results[i].similarity
            /\ \A k \in 1..Len(vectorStore) :
                  LET similarity == cosineSimilarity(VecQuery, vectorStore[k].embedding)
                  IN  (/\ vectorStore[k].id \notin returned
                       /\ SatisfiesFilters(vectorStore[k].metadata.unit, options.filters)
                       /\ AtLeastMinSimilarity(similarity, options))
                      => \A i \in 1..Len(results) :
                            similarity <= results[i].similarity

\* A search that left out an entry passing the filters because of topK,
\* after the id of another unit was deleted, the better entry being the one
\* inserted later
C21_Witness ==
    /\ call.op = "search"
    /\ call.options.topK = 1
    /\ call.deleted # {}
    /\ Len(vectorStore) = 2
    /\ Len(call.results) = 1
    /\ call.results[1].id = vectorStore[2].id
    /\ call.results[1].similarity = 96
    /\ cosineSimilarity(VecQuery, vectorStore[1].embedding) = 60
    /\ SatisfiesFilters(vectorStore[1].metadata.unit, call.options.filters)
    /\ call.options.filters # NoFilters

----------------------------------------------------------------------------
(* SpecEnrich: the token estimate and the truncation of enrichUnitsWithCode.
   A text is the sequence of its lines, as split('\n') gives them; a line is
   known by its length and by whether it is the truncation marker. *)

MAX_UNIT_TOKENS == 500
CHARS_PER_TOKEN == 4
MARKER_LENGTH == 18

SourceLine(length) == [length |-> length, marker |-> FALSE]

\* The last line of '\n// ... (truncated)'
MarkerLine == [length |-> MARKER_LENGTH, marker |-> TRUE]

\* code.length of lines.join('\n')
RECURSIVE JoinedLength(_)
JoinedLength(lines) ==
    IF Len(lines) = 0 THEN 0
    ELSE IF Len(lines) = 1 THEN lines[1].length
    ELSE lines[1].length + 1 + JoinedLength(Tail(lines))

\* The loop of truncateCode from line k on: the lines appended to truncated
RECURSIVE KeptLines(_, _, _, _)
KeptLines(lines, k, charCount, maxChars) ==
    IF k > Len(lines) THEN <<>>
    ELSE IF charCount + lines[k].length > maxChars THEN <<>>
    ELSE <<lines[k]>> \o KeptLines(lines, k + 1, charCount + lines[k].length + 1,
                                   maxChars)

\* A truncation that cuts at maxChars, inside a line if need be
truncateCodeAtCharacter(lines, maxTokens) ==
    LET maxChars == maxTokens * CHARS_PER_TOKEN
        kept == KeptLines(lines, 1, 0, maxChars)
        rest == maxChars - JoinedLength(kept) - (IF Len(kept) > 0 THEN 1 ELSE 0)
    IN  IF JoinedLength(lines) <= maxChars THEN lines
        ELSE IF rest > 0 /\ Len(kept) < Len(lines)
             THEN kept \o <<SourceLine(rest), MarkerLine>>
             ELSE kept \o <<SourceLine(0), MarkerLine>>

\* truncateCode: the kept lines, each followed by '\n', then
\* '\n// ... (truncated)', which split('\n') reads as the kept lines, an empty
\* line and the marker
truncateCode(lines, maxTokens) ==
    LET maxChars == maxTokens * CHARS_PER_TOKEN
    IN  IF JoinedLength(lines) <= maxChars THEN lines
        ELSE KeptLines(lines, 1, 0, maxChars) \o <<SourceLine(0), MarkerLine>>

\* Math.ceil(unit.code.length / CHARS_PER_TOKEN)
TokensOf(lines) == (JoinedLength(lines) + CHARS_PER_TOKEN - 1) \div CHARS_PER_TOKEN

\* The code and metadata.tokens that enrichUnitsWithCode gives a unit whose
\* lines are these
EnrichedCode(lines) ==
    IF TokensOf(lines) > MAX_UNIT_TOKENS
    THEN [code |-> truncateCode(lines, MAX_UNIT_TOKENS), tokens |-> MAX_UNIT_TOKENS]
    ELSE [code |-> lines, tokens |-> TokensOf(lines)]

\* Line lengths around the ceiling of 2000 characters
LineLengths == {0, 3, 4, 1000, 1998, 2000, 2001}

EnrichTexts == UNION {[1..n -> {SourceLine(l) : l \in LineLengths}] : n \in 1..MaxCodeLines}

InitEnrich ==
    /\ \E lines \in EnrichTexts :
          call = [op |-> "extractCodeUnits", source |-> lines, code |-> <<>>,
                  tokens |-> 0]
    /\ vectorStore = <<>>
    /\ retrieval = NoRetrieval
    /\ combination = NoCombination
    /\ graph = NoGraph
    /\ resolution = NoResolution
    /\ disk = NoDisk
    /\ index = NoIndex
    /\ semanticCache = NoCache
    /\ graphCache = NoGraphCache

EnrichUnit ==
    /\ call.op = "extractCodeUnits"
    /\ call' = [op |-> "enrichUnitsWithCode", source |-> call.source,
                code |-> EnrichedCode(call.source).code,
                tokens |-> EnrichedCode(call.source).tokens]
    /\ UnchangedOutsideCall

NextEnrich == EnrichUnit

SpecEnrich == InitEnrich /\ [][NextEnrich]_vars

\* C22: after enrichUnitsWithCode a unit whose source text exceeds 500
\* tokens at 4 characters per token has a code made of whole leading lines
\* of the text followed by the truncation marker and reports exactly 500
\* tokens; every enriched unit reports at most 500 tokens.
C22_TruncatedAtLineBoundary ==
    call.op = "enrichUnitsWithCode" =>
        /\ call.tokens <= 500
        /\ JoinedLength(call.source) > 500 * 4 =>
              /\ call.tokens = 500
              /\ \E k \in 0..(Len(call.source) - 1) :
                    call.code = SubSeq(call.source, 1, k)
                                  \o <<SourceLine(0), MarkerLine>>
        /\ JoinedLength(call.source) <= 500 * 4 => call.code = call.source

\* A unit of three lines whose first line was kept and whose second did not
\* fit
C22_Witness ==
    /\ call.op = "enrichUnitsWithCode"
    /\ Len(call.source) = 3
    /\ call.source[1].length = 1998
    /\ call.source[2].length = 3
    /\ call.code = <<SourceLine(1998), SourceLine(0), MarkerLine>>
    /\ call.tokens = 500

----------------------------------------------------------------------------
(* The graph cache round trip, checked under SpecGraphCache *)

\* The keys of a Map
Keys(map) == {map[k].id : k \in 1..Len(map)}

\* The value a Map holds under a key it has
ValueOf(map, key) == map[CHOOSE k \in 1..Len(map) : map[k].id = key]

\* Two Maps have the same keys, each once, with equal values
SameEntries(a, b) ==
    /\ Keys(a) = Keys(b)
    /\ Cardinality(Keys(a)) = Len(a) /\ Cardinality(Keys(b)) = Len(b)
    /\ \A key \in Keys(a) : ValueOf(a, key) = ValueOf(b, key)

----------------------------------------------------------------------------
(* SpecParse: one call of a parser's parseFile(filePath, content) on a file
   for which fs.stat, the parse of the content or one of the extractions may
   throw.  The three parsers have the same frame: fs.stat and the digest
   before the try, the parse and the extractions inside it. *)

\* Where the call fails, if it does
ParseFailures == {"none", "stat", "parse", "extractImports", "extractDefinitions"}

\* The FileMetadata with its errors list
WithErrors(metadata, errors) ==
    [k \in (DOMAIN metadata) \union {"errors"} |->
        IF k = "errors" THEN errors ELSE metadata[k]]

\* parseFile: fs.stat throws before the try and so out of the call; a throw
\* inside the try leaves what was assigned before it and sets errors to the
\* message
parseFile(source, failure) ==
    LET parsed == ParseFile(source)
        empty == [parsed EXCEPT !.imports = <<>>, !.definitions = <<>>,
                                !.exports = <<>>]
    IN  IF failure = "stat"
        THEN [raised |-> TRUE, metadata |-> WithErrors(empty, <<>>)]
        ELSE IF failure \in {"parse", "extractImports"}
        THEN [raised |-> FALSE, metadata |-> WithErrors(empty, <<"message">>)]
        ELSE IF failure = "extractDefinitions"
        THEN [raised |-> FALSE,
              metadata |-> WithErrors([empty EXCEPT !.imports = parsed.imports],
                                      <<"message">>)]
        ELSE [raised |-> FALSE, metadata |-> WithErrors(parsed, <<>>)]

\* The files handed to a parser
ParseSources ==
    {SourceFile(path, definitions, imports) :
        path \in {MainTs, UtilsTs, MainPy},
        definitions \in {<<>>, <<Definition(SymFmt, TRUE)>>,
                         <<Definition(SymFmt, TRUE), Definition(SymGet, FALSE)>>},
        imports \in {<<>>, <<ImportSpec(Specifier("./", "utils", ""), SymFmt, SymFmt)>>}}

InitParse ==
    /\ \E source \in ParseSources, failure \in ParseFailures :
          call = [op |-> "readFile", source |-> source, failure |-> failure,
                  raised |-> FALSE, metadata |-> WithErrors(ParseFile(source), <<>>)]
    /\ vectorStore = <<>>
    /\ retrieval = NoRetrieval
    /\ combination = NoCombination
    /\ graph = NoGraph
    /\ resolution = NoResolution
    /\ disk = NoDisk
    /\ index = NoIndex
    /\ semanticCache = NoCache
    /\ graphCache = NoGraphCache

ParseFileCall ==
    /\ call.op = "readFile"
    /\ call' = [call EXCEPT
                   !.op = "parseFile",
                   !.raised = parseFile(call.source, call.failure).raised,
                   !.metadata = parseFile(call.source, call.failure).metadata]
    /\ UnchangedOutsideCall

NextParse == ParseFileCall

SpecParse == InitParse /\ [][NextParse]_vars

\* The failure is in the errors list of a FileRecord for the path
FailureRecorded ==
    /\ ~call.raised
    /\ call.metadata.path = call.source.path
    /\ call.metadata.errors # <<>>

\* C24: parseFile never raises past its boundary: any failure while handling
\* a file, a failure to stat it included, yields a FileRecord for the path
\* with the failure in its errors list and empty or partial imports, exports
\* and definitions.
C24_ParseFileNeverRaises ==
    call.op = "parseFile" =>
        /\ ~call.raised
        /\ call.failure # "none" => FailureRecorded

\* The same for the failures inside the try: the parse and the extractions
C24_ParseFailureRecorded ==
    (call.op = "parseFile" /\ call.failure \notin {"none", "stat"}) =>
        /\ FailureRecorded
        /\ call.metadata.definitions = <<>>
        /\ call.metadata.exports = <<>>

----------------------------------------------------------------------------
(* SpecLineContext: buildLineContext for a target line whose symbols are
   imported from another file of the project, where each is an exported
   definition of some length.  A text is known by the number of its lines. *)

EXTRACT_MAX_LINES == 50
DEFAULT_MAX_CONTEXT_SYMBOLS == 5
DEFAULT_MAX_LINES_PER_SYMBOL == 30

\* extractCodeBlock(filePath, startLine, endLine, language, maxLines = 50);
\* fileLines are the lines the file has when it is read
extractCodeBlock(fileLines, startLine, endLine, maxLines) ==
    LET actualEndLine == Min(endLine, startLine + maxLines - 1)
    IN  [startLine |-> startLine, endLine |-> actualEndLine,
         contentLines |-> IF Min(actualEndLine, fileLines) < startLine THEN 0
                          ELSE Min(actualEndLine, fileLines) - startLine + 1]

\* The definition block of resolveSymbol for an exported symbol of an
\* imported file: extractCodeBlock is called without maxLines
DefinitionBlock(fileLines, definition) ==
    extractCodeBlock(fileLines, definition.startLine, definition.endLine,
                     EXTRACT_MAX_LINES)

\* options?.maxContextSymbols || 5 and options?.maxLinesPerSymbol || 30
OptionOr(option, default) ==
    IF option.given /\ option.value # 0 THEN option.value ELSE default

\* buildLineContext: the context blocks of the first maxSymbols symbols of
\* the line, each resolved to its exported definition in the other file.
\* maxLines is computed and not used.
buildLineContext(definitions, fileLines, options) ==
    LET maxSymbols == OptionOr(options.maxContextSymbols, DEFAULT_MAX_CONTEXT_SYMBOLS)
        maxLines == OptionOr(options.maxLinesPerSymbol, DEFAULT_MAX_LINES_PER_SYMBOL)
        resolved == SliceTo(definitions, maxSymbols)
    IN  [k \in 1..Len(resolved) |-> DefinitionBlock(fileLines, resolved[k])]

\* The lengths of the definitions, around the two caps
DefinitionLengths == {1, 30, 31, 50, 51}

\* Definitions starting at line 3 of utils.ts
LineDefinitions ==
    {[startLine |-> 3, endLine |-> 3 + n - 1] : n \in DefinitionLengths}

LineOptions ==
    [maxContextSymbols : {None(0), Some(1)},
     maxLinesPerSymbol : {None(0), Some(10), Some(60)}]

\* The lines utils.ts has when the block is read: all of them, or fewer
\* after it was cut short
LineFileLengths == {20, 100}

InitLineContext ==
    /\ \E definitions \in UNION {[1..n -> LineDefinitions] : n \in 1..MaxLineSymbols},
          fileLines \in LineFileLengths, options \in LineOptions :
          call = [op |-> "loadOrBuildGraph", definitions |-> definitions,
                  fileLines |-> fileLines, options |-> options,
                  contextBlocks |-> <<>>]
    /\ vectorStore = <<>>
    /\ retrieval = NoRetrieval
    /\ combination = NoCombination
    /\ graph = NoGraph
    /\ resolution = NoResolution
    /\ disk = NoDisk
    /\ index = NoIndex
    /\ semanticCache = NoCache
    /\ graphCache = NoGraphCache

BuildLineContext ==
    /\ call.op = "loadOrBuildGraph"
    /\ call' = [call EXCEPT
                   !.op = "buildLineContext",
                   !.contextBlocks = buildLineContext(call.definitions,
                                                      call.fileLines, call.options)]
    /\ UnchangedOutsideCall

NextLineContext == BuildLineContext

SpecLineContext == InitLineContext /\ [][NextLineContext]_vars

\* Every block spans at most n lines, by its line numbers and by its content
BlocksSpanAtMost(n) ==
    \A k \in 1..Len(call.contextBlocks) :
        /\ call.contextBlocks[k].endLine - call.contextBlocks[k].startLine + 1 <= n
        /\ call.contextBlocks[k].contentLines <= n

\* C27: every context block returned by buildLineContext spans at most
\* maxLinesPerSymbol lines of the definition (30 when the option is not
\* given), whatever the length of the definition.
C27_BlocksWithinMaxLinesPerSymbol ==
    call.op = "buildLineContext" =>
        BlocksSpanAtMost(IF call.options.maxLinesPerSymbol.given
                         THEN call.options.maxLinesPerSymbol.value ELSE 30)

\* What holds instead: every block spans at most the 50 lines of
\* extractCodeBlock's default
C27_BlocksWithinFiftyLines ==
    call.op = "buildLineContext" => BlocksSpanAtMost(50)

----------------------------------------------------------------------------
(* Files created after the cache was saved, checked under SpecGraphCache *)

\* C28: detectChangedFiles only returns paths that are keys of the cached
\* graph's files Map, so on a cache hit loadOrBuildGraph without forceRebuild
\* never adds a FileRecord for a file created after the cache was saved: the
\* file set of the returned graph is a subset of that of the cached graph.
C28_CacheHitAddsNoFile ==
    (call.op = "loadOrBuildGraph" /\ call.cacheHit) =>
        /\ \A k \in 1..Len(call.changedFiles) :
              call.changedFiles[k] \in Keys(CachedGraphOfCall.files)
        /\ Keys(graph.files) \subseteq Keys(CachedGraphOfCall.files)

\* A cache hit that patched the graph while the project has a readable file
\* the cached graph does not know
C28_Witness ==
    /\ call.op = "loadOrBuildGraph"
    /\ call.cacheHit
    /\ call.updated
    /\ \E k \in 1..Len(disk) :
          /\ disk[k].readable
          /\ disk[k].path \notin Keys(CachedGraphOfCall.files)
          /\ disk[k].path \notin Keys(graph.files)

----------------------------------------------------------------------------
(* Definitions of one name in one file, checked under SpecSemanticIndex *)

\* The call built the index anew through buildSemanticIndex
IndexBuiltByCall == call.op = "loadOrBuildSemanticIndex" /\ ~call.fromCache

\* Every unit that buildSemanticIndex embeds has an entry of its own in
\* index.units
EachUnitHasItsEntry ==
    LET validUnits == ValidUnits(graph, disk)
    IN  /\ Len(index.units) = Len(validUnits)
        /\ \A k \in 1..Len(validUnits) :
              \E j \in 1..Len(index.units) : index.units[j] = validUnits[k]

\* The unit in the metadata of every vector store entry is the unit that
\* index.units holds under the id of the entry
StoreMetadataIsIndexUnit ==
    \A k \in 1..Len(vectorStore) :
        LET unit == FindUnit(index.units, vectorStore[k].id)
        IN  unit.given /\ vectorStore[k].metadata.unit = unit.value

\* Two of the units that buildSemanticIndex embeds have the same id
SomeIdTwice ==
    LET validUnits == ValidUnits(graph, disk)
    IN  \E j, k \in 1..Len(validUnits) : j # k /\ validUnits[j].id = validUnits[k].id

\* C29: in every index returned by buildSemanticIndex each non-empty
\* definition extracted from the graph has its own entry in index.units, and
\* for every id in the vector store the unit in the entry's metadata is
\* index.units.get(id); also when one file holds two definitions of one name.
C29_UnitsAndStoreAgree ==
    IndexBuiltByCall => (EachUnitHasItsEntry /\ StoreMetadataIsIndexUnit)

\* The part of C29 that holds: when no two definitions share a file and a
\* name, every unit has its entry and the vector store holds the units of
\* index.units
C29_UnitsAndStoreAgreeDistinctIds ==
    (IndexBuiltByCall /\ ~SomeIdTwice) =>
        (EachUnitHasItsEntry /\ StoreMetadataIsIndexUnit)

\* An index built for two units of distinct ids, both embedded
C29_DistinctIdsWitness ==
    /\ IndexBuiltByCall
    /\ ~SomeIdTwice
    /\ Len(index.units) = 2
    /\ Len(vectorStore) = 2

----------------------------------------------------------------------------
(* SpecTwoCalls: two calls of loadOrBuildGraph for one project root run at
   the same time, step by step, while files of the project are modified; when
   both have returned, one more call runs alone.  graphCache holds the cache
   file as the lines of its text; the call record holds the two running
   calls, the order in which they wrote the cache file, and the call that
   runs alone. *)

\* JSON.stringify(serialized, null, 2): the opening line, the entries of
\* files, the entries of symbols, and the closing lines with projectRoot,
\* version and stats
CacheText(cache) ==
    <<[kind |-> "open", value |-> <<>>]>>
        \o [k \in 1..Len(cache.files) |-> [kind |-> "file", value |-> cache.files[k]]]
        \o [k \in 1..Len(cache.symbols) |->
               [kind |-> "symbol", value |-> cache.symbols[k]]]
        \o <<[kind |-> "close",
              value |-> <<cache.projectRoot, cache.version, cache.stats>>]>>

\* JSON.parse does not throw on a text: it is one object from its opening
\* line to its closing lines, with nothing after them
IsJson(text) ==
    /\ Len(text) >= 2
    /\ text[1].kind = "open"
    /\ text[Len(text)].kind = "close"
    /\ \A k \in 2..(Len(text) - 1) : text[k].kind \in {"file", "symbol"}

\* The lines of one kind of a text, as the entries they hold
EntriesOfKind(text, kind) ==
    LET lines == SelectSeq(text, LAMBDA l : l.kind = kind)
    IN  [k \in 1..Len(lines) |-> lines[k].value]

\* fs.readFile of the cache file and JSON.parse of what was read
ReadCacheFile(file) ==
    IF ~file.exists THEN NoGraphCache
    ELSE IF ~IsJson(file.text) THEN [NoGraphCache EXCEPT !.present = TRUE]
    ELSE [present |-> TRUE, parses |-> TRUE,
          files |-> EntriesOfKind(file.text, "file"),
          symbols |-> EntriesOfKind(file.text, "symbol"),
          projectRoot |-> file.text[Len(file.text)].value[1],
          version |-> file.text[Len(file.text)].value[2],
          stats |-> file.text[Len(file.text)].value[3]]

\* The write of fs.writeFile through its own file handle: the data goes to
\* the start of the file, and what the file holds beyond the data stays
WriteAtStart(text, data) ==
    data \o SubSeq(text, Len(data) + 1, Len(text))

\* What fs.stat and fs.readFile give for files whose content was read
\* earlier: the content that was read, with the modification time the file
\* has now; a file that is gone since is left out
StatAfterRead(seen, sources) ==
    LET there == SelectSeq(seen, LAMBDA f : DiskHas(sources, f.path))
    IN  [k \in 1..Len(there) |->
            [there[k] EXCEPT !.mtime = DiskGet(sources, there[k].path).mtime]]

\* A call of loadOrBuildGraph that has not started
IdleCall ==
    [pc |-> "start", forceRebuild |-> FALSE, cachedGraph |-> None(NoGraph),
     changedFiles |-> <<>>, seen |-> <<>>, graph |-> NoGraph,
     fromCache |-> FALSE]

\* The two calls that run at the same time
ConcurrentCalls == {1, 2}

\* The cache file a call that ran before left for the project as it is
CacheFileOf(sources) ==
    [exists |-> TRUE,
     text |-> CacheText(saveGraphToCache(buildDependencyGraph(sources)))]

InitTwoCalls ==
    /\ disk = <<SourceFile(MainTs, <<>>,
                            <<ImportSpec(Specifier("./", "utils", ""), SymFmt, SymFmt)>>),
                SourceFile(UtilsTs, <<Definition(SymFmt, TRUE)>>, <<>>)>>
    /\ graphCache \in {[exists |-> FALSE, text |-> <<>>], CacheFileOf(disk)}
    /\ call = [op |-> "twoCalls",
               procs |-> [p \in ConcurrentCalls |-> IdleCall],
               writes |-> <<>>,
               edits |-> 0,
               quiet |-> FALSE,
               cache |-> NoGraphCache,
               changedFiles |-> <<>>]
    /\ graph = NoGraph
    /\ vectorStore = <<>>
    /\ retrieval = NoRetrieval
    /\ combination = NoCombination
    /\ resolution = NoResolution
    /\ index = NoIndex
    /\ semanticCache = NoCache

UnchangedOutsideTwoCalls ==
    UNCHANGED <<vectorStore, retrieval, combination, resolution, index,
                semanticCache, graph>>

\* A file of the project is rewritten while the calls run
ModifyFile ==
    /\ ~call.quiet
    /\ call.edits < MaxConcurrentEdits
    /\ \E k \in 1..Len(disk), defs \in GraphCacheContents, t \in Mtimes :
          /\ defs # disk[k].definitions
          /\ disk' = [disk EXCEPT ![k].definitions = defs, ![k].mtime = t]
    /\ call' = [call EXCEPT !.edits = @ + 1]
    /\ UNCHANGED graphCache
    /\ UnchangedOutsideTwoCalls

\* loadOrBuildGraph up to the answer of loadGraphFromCache: with
\* forceRebuild, or with no cached graph, the call goes on to build
LoadCache(p) ==
    /\ call.procs[p].pc = "start"
    /\ \E forceRebuild \in BOOLEAN :
          LET cachedGraph == IF forceRebuild THEN None(NoGraph)
                             ELSE loadGraphFromCache(ReadCacheFile(graphCache))
          IN  call' = [call EXCEPT
                         !.procs[p].forceRebuild = forceRebuild,
                         !.procs[p].cachedGraph = cachedGraph,
                         !.procs[p].pc = IF cachedGraph.given THEN "detect"
                                         ELSE "build"]
    /\ UNCHANGED <<disk, graphCache>>
    /\ UnchangedOutsideTwoCalls

\* detectChangedFiles on the cached graph; with no changed file the call
\* returns the cached graph
DetectChanges(p) ==
    /\ call.procs[p].pc = "detect"
    /\ LET changedFiles == detectChangedFiles(call.procs[p].cachedGraph.value, disk)
       IN  call' = [call EXCEPT
                      !.procs[p].changedFiles = changedFiles,
                      !.procs[p].graph =
                          IF Len(changedFiles) = 0
                          THEN call.procs[p].cachedGraph.value ELSE @,
                      !.procs[p].fromCache = (Len(changedFiles) = 0),
                      !.procs[p].pc = IF Len(changedFiles) = 0 THEN "returned"
                                      ELSE "update"]
    /\ UNCHANGED <<disk, graphCache>>
    /\ UnchangedOutsideTwoCalls

\* The files are read: fs.readFile in updateDependencyGraph and in
\* buildDependencyGraph, before parseFile is called
ReadFiles(p) ==
    /\ call.procs[p].pc \in {"update", "build"}
    /\ call' = [call EXCEPT
                  !.procs[p].seen = disk,
                  !.procs[p].pc = IF @ = "update" THEN "parseChanged"
                                  ELSE "parseAll"]
    /\ UNCHANGED <<disk, graphCache>>
    /\ UnchangedOutsideTwoCalls

\* parseFile of what was read, with the fs.stat inside it, and the rest of
\* updateDependencyGraph or buildDependencyGraph
ParseFiles(p) ==
    /\ call.procs[p].pc \in {"parseChanged", "parseAll"}
    /\ LET sources == StatAfterRead(call.procs[p].seen, disk)
       IN  call' = [call EXCEPT
                      !.procs[p].graph =
                          IF call.procs[p].pc = "parseChanged"
                          THEN updateDependencyGraph(call.procs[p].cachedGraph.value,
                                                     call.procs[p].changedFiles,
                                                     sources)
                          ELSE buildDependencyGraph(sources),
                      !.procs[p].pc = "save"]
    /\ UNCHANGED <<disk, graphCache>>
    /\ UnchangedOutsideTwoCalls

\* saveGraphToCache, first half: fs.writeFile opens the cache file, which
\* creates it or cuts it to nothing
OpenCacheFile(p) ==
    /\ call.procs[p].pc = "save"
    /\ graphCache' = [exists |-> TRUE, text |-> <<>>]
    /\ call' = [call EXCEPT !.procs[p].pc = "write"]
    /\ UNCHANGED disk
    /\ UnchangedOutsideTwoCalls

\* saveGraphToCache, second half: the text is written, and the call returns
\* its graph
WriteCacheFile(p) ==
    /\ call.procs[p].pc = "write"
    /\ graphCache' = [exists |-> TRUE,
                      text |-> WriteAtStart(graphCache.text,
                                  CacheText(saveGraphToCache(call.procs[p].graph)))]
    /\ call' = [call EXCEPT !.procs[p].pc = "returned",
                            !.writes = Append(@, p)]
    /\ UNCHANGED disk
    /\ UnchangedOutsideTwoCalls

\* Both calls have returned, and one more call of loadOrBuildGraph runs
\* with nothing else running
QuietCall ==
    /\ ~call.quiet
    /\ \A p \in ConcurrentCalls : call.procs[p].pc = "returned"
    /\ LET r == loadOrBuildGraph(disk, ReadCacheFile(graphCache), FALSE)
       IN  /\ graph' = r.graph
           /\ graphCache' = IF r.saved
                            THEN [exists |-> TRUE, text |-> CacheText(r.cache)]
                            ELSE graphCache
           /\ call' = [call EXCEPT !.quiet = TRUE,
                                   !.cache = ReadCacheFile(graphCache),
                                   !.changedFiles = r.changedFiles]
    /\ UNCHANGED <<disk, vectorStore, retrieval, combination, resolution, index,
                   semanticCache>>

NextTwoCalls ==
    \/ ModifyFile
    \/ \E p \in ConcurrentCalls : LoadCache(p)
    \/ \E p \in ConcurrentCalls : DetectChanges(p)
    \/ \E p \in ConcurrentCalls : ReadFiles(p)
    \/ \E p \in ConcurrentCalls : ParseFiles(p)
    \/ \E p \in ConcurrentCalls : OpenCacheFile(p)
    \/ \E p \in ConcurrentCalls : WriteCacheFile(p)
    \/ QuietCall

SpecTwoCalls == InitTwoCalls /\ [][NextTwoCalls]_vars

----------------------------------------------------------------------------
(* Properties of concurrent calls, checked under SpecTwoCalls *)

\* A graph is whole: its symbol index is the one of its files, and its
\* counts are those of its Maps
CompleteGraph(g) ==
    /\ g.built
    /\ g.symbols = buildSymbolIndex(g.files)
    /\ g.stats.totalFiles = Len(g.files)
    /\ g.stats.totalSymbols = Len(g.symbols)
    /\ g.stats.totalImports = TotalImports(g.files, Len(g.files))

\* Every call that has returned has returned a whole graph
EachCallReturnsCompleteGraph ==
    \A p \in ConcurrentCalls :
        call.procs[p].pc = "returned" => CompleteGraph(call.procs[p].graph)

\* Both calls have returned, one of them at least wrote the cache file, and
\* nothing ran since
BothReturnedAndWritten ==
    /\ ~call.quiet
    /\ \A p \in ConcurrentCalls : call.procs[p].pc = "returned"
    /\ call.writes # <<>>

\* The graph of the call that wrote the cache file last
GraphOfLastWriter == call.procs[call.writes[Len(call.writes)]].graph

\* The cache file holds the graph of the last writer
LastWriterWins ==
    BothReturnedAndWritten =>
        loadGraphFromCache(ReadCacheFile(graphCache)) = Some(GraphOfLastWriter)

\* A FileRecord of a graph does not match what its file holds now
StaleFor(g, path) ==
    /\ MapHas(g.files, path)
    /\ DiskHas(disk, path)
    /\ FilesGet(g.files, path).hash # ContentHash(DiskGet(disk, path))

\* The call that ran alone found every file the cached graph was stale for
\* and returned its FileRecord as the file is now
StaleFilesDetectedAndReparsed ==
    (call.quiet /\ loadGraphFromCache(call.cache).given) =>
        \A k \in 1..Len(disk) :
            StaleFor(loadGraphFromCache(call.cache).value, disk[k].path) =>
                /\ ArrIncludes(call.changedFiles, disk[k].path)
                /\ MapHas(graph.files, disk[k].path)
                /\ FilesGet(graph.files, disk[k].path) = ParseFile(disk[k])

\* C30: of two concurrent calls of loadOrBuildGraph for one project root,
\* interleaved with modifications of project files, each returns a complete
\* graph and the cache file finally holds the graph written by the last
\* writer; if that graph is stale for a file it knows, the next call running
\* alone detects the file as changed and returns a FileRecord that matches
\* the file's current content.
C30_LastWriterWinsAndStaleIsRepaired ==
    /\ call.op = "twoCalls"
    /\ EachCallReturnsCompleteGraph
    /\ LastWriterWins
    /\ StaleFilesDetectedAndReparsed

\* The parts of C30 that hold: every call returns a complete graph, a cache
\* file that is JSON holds the graph of the last writer, and the call that
\* runs alone repairs every stale FileRecord of the graph it loads
C30_CompleteGraphsAndRepair ==
    /\ EachCallReturnsCompleteGraph
    /\ (BothReturnedAndWritten /\ IsJson(graphCache.text)) =>
           loadGraphFromCache(ReadCacheFile(graphCache)) = Some(GraphOfLastWriter)
    /\ StaleFilesDetectedAndReparsed

\* Both calls wrote, and the call that ran alone loaded a graph that was
\* stale for a file and patched it
C30_RepairWitness ==
    /\ call.quiet
    /\ Len(call.writes) = 2
    /\ loadGraphFromCache(call.cache).given
    /\ \E k \in 1..Len(disk) :
          StaleFor(loadGraphFromCache(call.cache).value, disk[k].path)

\* Both calls wrote and the cache file is not JSON: the later write was
\* the shorter one and left the end of the earlier one in the file
C30_TornWitness ==
    /\ BothReturnedAndWritten
    /\ Len(call.writes) = 2
    /\ ~IsJson(graphCache.text)

====
